---- MODULE Spec2Model ----
(***************************************************************************)
(* A model of the DuckHunt game engine (src/duckhunt_bot.py): the level    *)
(* table, the XP arithmetic, the per-channel duck queues, the per-channel  *)
(* spawn scheduler driven by run_network, and the shoot / befriend /       *)
(* reload / shop / admin command handlers.                                 *)
(*                                                                         *)
(* Concurrency: one asyncio task per network.  A handler suspends only at  *)
(* an await; every read-decide-mutate sequence on active_ducks runs under  *)
(* ducks_lock (an asyncio.Lock held across the awaits inside it), and a    *)
(* player-channel record is keyed by network:channel, so the tasks of two  *)
(* networks never write the same record except through the despawn sweep,  *)
(* which runs under the lock.  Each handler is therefore one atomic        *)
(* action; the actions of different networks interleave freely.            *)
(*                                                                         *)
(* Time is the integer number of seconds read by time.time().  Random      *)
(* draws are parameters of the actions; each specification draws them      *)
(* from the sets named below.                                              *)
(***************************************************************************)
EXTENDS Integers, Sequences, FiniteSets, TLC

\* ------------------------------------------------------------------ bounds
MaxTime == 10
MaxCmds == 2
MaxElapses == 1
MaxProbes == 2
XpBelow == 12
XpAbove == 8300
MaxExcess == 3
MaxShots == 4
MaxBuys == 2
MaxOwner == 4
MaxLate == 40
MaxKitCmds == 3

\* ------------------------------------------------- configuration of the run
Networks == {"n1", "n2"}
TheChannel == "#a"
Users == {"u1", "u2"}
bot_nick == "DuckHuntBot"
Keys == {<<n, TheChannel>> : n \in Networks}
NoVictim == "NoVictim"
None == -1

\* per-network settings of the model's configuration file (get_network_setting)
min_spawn_of == [n \in Networks |-> IF n = "n1" THEN 60 ELSE 2]
max_spawn_of == [n \in Networks |-> IF n = "n1" THEN 60 ELSE 4]
max_ducks_of == [n \in Networks |-> IF n = "n1" THEN 2 ELSE 1]
despawn_time_of == [n \in Networks |-> IF n = "n1" THEN 6 ELSE 3]

get_network_min_spawn(n) == min_spawn_of[n]
get_network_max_spawn(n) == max_spawn_of[n]
get_network_max_ducks(n) == max_ducks_of[n]
get_network_despawn_time(n) == despawn_time_of[n]
get_network_channel_key(n, c) == <<n, c>>

\* random.randint(lo, hi) and random.choice are drawn at the two ends of their range
randint(lo, hi) == { lo, hi }

\* ------------------------------------------------------- python dict helpers
DictHas(d, k) == k \in DOMAIN d
DictGet(d, k, default) == IF k \in DOMAIN d THEN d[k] ELSE default
DictSet(d, k, v) == [x \in (DOMAIN d) \cup {k} |-> IF x = k THEN v ELSE d[x]]
DictDel(d, k) == [x \in (DOMAIN d) \ {k} |-> d[x]]
EmptyDict == [x \in {} |-> 0]
Max(a, b) == IF a >= b THEN a ELSE b
Min(a, b) == IF a <= b THEN a ELSE b
Abs(a) == IF a < 0 THEN 0 - a ELSE a

\* ---------------------------------------------------------------- LevelTable
\* rows: <<min_xp, level, accuracy, reliability, clip, clips, miss, wild, accident>>
thresholds ==
  << <<-5, 0, 55, 85, 6, 1, -1, -1, -25>>,
     <<-4, 1, 55, 85, 6, 2, -1, -1, -25>>,
     <<20, 2, 56, 86, 6, 2, -1, -1, -25>>,
     <<50, 3, 57, 87, 6, 2, -1, -1, -25>>,
     <<90, 4, 58, 88, 6, 2, -1, -1, -25>>,
     <<140, 5, 59, 89, 6, 2, -1, -1, -25>>,
     <<200, 6, 60, 90, 6, 2, -1, -1, -25>>,
     <<270, 7, 65, 93, 4, 3, -1, -1, -25>>,
     <<350, 8, 67, 93, 4, 3, -1, -1, -25>>,
     <<440, 9, 69, 93, 4, 3, -1, -1, -25>>,
     <<540, 10, 71, 94, 4, 3, -1, -2, -25>>,
     <<650, 11, 73, 94, 4, 3, -1, -2, -25>>,
     <<770, 12, 73, 94, 4, 3, -1, -2, -25>>,
     <<900, 13, 74, 95, 4, 3, -1, -2, -25>>,
     <<1040, 14, 74, 95, 4, 3, -1, -2, -25>>,
     <<1190, 15, 75, 95, 4, 3, -1, -2, -25>>,
     <<1350, 16, 80, 97, 2, 4, -1, -2, -25>>,
     <<1520, 17, 81, 97, 2, 4, -1, -2, -25>>,
     <<1700, 18, 81, 97, 2, 4, -1, -2, -25>>,
     <<1890, 19, 82, 97, 2, 4, -1, -2, -25>>,
     <<2090, 20, 82, 97, 2, 4, -3, -5, -25>>,
     <<2300, 21, 83, 98, 2, 4, -3, -5, -25>>,
     <<2520, 22, 83, 98, 2, 4, -3, -5, -25>>,
     <<2750, 23, 84, 98, 2, 4, -3, -5, -25>>,
     <<2990, 24, 84, 98, 2, 4, -3, -5, -25>>,
     <<3240, 25, 85, 98, 2, 4, -3, -5, -25>>,
     <<3500, 26, 90, 99, 1, 5, -3, -5, -25>>,
     <<3770, 27, 91, 99, 1, 5, -3, -5, -25>>,
     <<4050, 28, 91, 99, 1, 5, -3, -5, -25>>,
     <<4340, 29, 92, 99, 1, 5, -3, -5, -25>>,
     <<4640, 30, 92, 99, 1, 5, -5, -8, -25>>,
     <<4950, 31, 93, 99, 1, 5, -5, -8, -25>>,
     <<5270, 32, 93, 99, 1, 5, -5, -8, -25>>,
     <<5600, 33, 94, 99, 1, 5, -5, -8, -25>>,
     <<5940, 34, 94, 99, 1, 5, -5, -8, -25>>,
     <<6290, 35, 95, 99, 1, 5, -5, -8, -25>>,
     <<6650, 36, 95, 99, 1, 5, -5, -8, -25>>,
     <<7020, 37, 96, 99, 1, 5, -5, -8, -25>>,
     <<7400, 38, 96, 99, 1, 5, -5, -8, -25>>,
     <<7790, 39, 97, 99, 1, 5, -5, -8, -25>>,
     <<8200, 40, 97, 99, 1, 5, -5, -8, -25>> >>

\* the loop "for t in thresholds: if xp >= t[0]: chosen = t", from row i on
RECURSIVE choose_row(_, _, _)
choose_row(xp, i, chosen) ==
  IF i > Len(thresholds) THEN chosen
  ELSE choose_row(xp, i + 1, IF xp >= thresholds[i][1] THEN thresholds[i] ELSE chosen)

\* (a lookup that promotes ten XP early)
eager_row(xp) == choose_row(xp + 10, 1, thresholds[1])

chosen_row(xp) == choose_row(xp, 1, thresholds[1])

\* the returned dict for the chosen row t, with the row's threshold kept as min_xp
level_properties_of(t) ==
  [ min_xp |-> t[1], level |-> t[2], accuracy_pct |-> t[3], reliability_pct |-> t[4],
    magazine_capacity |-> t[5], magazines_max |-> t[6],
    miss_penalty |-> 0 - Abs(t[7]), wild_penalty |-> 0 - Abs(t[8]),
    accident_penalty |-> 0 - Abs(t[9]) ]

get_level_properties(xp) == level_properties_of(chosen_row(xp))

\* ------------------------------------------------------------- XP arithmetic
\* (the arithmetic without its floor)
unsafe_xp_operation(xp, operation, value) ==
  IF operation = "add" THEN xp + value
  ELSE IF operation = "subtract" THEN xp - value
  ELSE IF operation = "set" THEN value
  ELSE xp

\* safe_xp_operation on the xp field: returns the new xp
safe_xp_operation(xp, operation, value) ==
  IF operation = "add" THEN xp + value
  ELSE IF operation = "subtract" THEN Max(0, xp - value)
  ELSE IF operation = "set" THEN Max(0, value)
  ELSE xp

\* the level used for promotion / demotion: min(50, xp // 100 + 1)
hundreds_level(xp) == Min(50, (xp \div 100) + 1)

\* ------------------------------------------------- player-channel records
\* the record get_channel_stats creates for a player seen for the first time
default_stats ==
  [ xp |-> 0, ducks_shot |-> 0, golden_ducks |-> 0, misses |-> 0, accidents |-> 0,
    best_time |-> None, total_reaction_time |-> 0, shots_fired |-> 0,
    last_duck_time |-> None, wild_fires |-> 0,
    confiscated |-> FALSE, jammed |-> FALSE, sabotaged |-> FALSE, egged |-> FALSE,
    ammo |-> 0, magazines |-> 0, ap_shots |-> 0, explosive_shots |-> 0,
    bread_uses |-> 0, befriended_ducks |-> 0,
    trigger_lock_until |-> 0, trigger_lock_uses |-> 0, grease_until |-> 0,
    silencer_until |-> 0, sunglasses_until |-> 0, ducks_detector_until |-> 0,
    mirror_until |-> 0, sand_until |-> 0, soaked_until |-> 0,
    life_insurance_until |-> 0, liability_insurance_until |-> 0,
    brush_until |-> 0, clover_until |-> 0, clover_bonus |-> 0,
    sight_next_shot |-> FALSE,
    mag_upgrade_level |-> 0, mag_capacity_level |-> 0, level |-> 1,
    magazine_capacity |-> 0, magazines_max |-> 0,
    miss_penalty |-> 0, wild_penalty |-> 0, accident_penalty |-> 0 ]

\* apply_level_bonuses with the tier's properties at hand
with_level_bonuses(st, props) ==
  [ st EXCEPT !.magazine_capacity = props.magazine_capacity + st.mag_upgrade_level,
              !.magazines_max = props.magazines_max + st.mag_capacity_level,
              !.miss_penalty = props.miss_penalty,
              !.wild_penalty = props.wild_penalty,
              !.accident_penalty = props.accident_penalty ]

apply_level_bonuses(st) == with_level_bonuses(st, get_level_properties(st.xp))

\* get_channel_stats (file-backed store): the player table after the fetch ...
\* a record just created leaves get_channel_stats with a full magazine and all its
\* spare magazines
fully_loaded(created) ==
  [ created EXCEPT !.ammo = created.magazine_capacity,
                   !.magazines = created.magazines_max ]

fetch_players(pl, u, key) ==
  DictSet(pl, <<u, key>>,
          IF DictHas(pl, <<u, key>>) THEN apply_level_bonuses(pl[<<u, key>>])
          ELSE fully_loaded(apply_level_bonuses(default_stats)))

\* ... and the record it returns
get_channel_stats(pl, u, key) == fetch_players(pl, u, key)[<<u, key>>]

\* check_level_change: the record after the promotion / demotion step, given the
\* hundreds-levels and the caps (mag_cap, mags_max) before and after
level_changed(st, prev_level, new_level, old, new) ==
  IF new_level = prev_level THEN st
  ELSE IF new_level > prev_level
  THEN [ st EXCEPT
           !.magazines = IF st.magazines >= old.mags_max /\ new.mags_max > old.mags_max
                         THEN new.mags_max ELSE @,
           !.ammo = IF st.ammo >= old.mag_cap /\ new.mag_cap > old.mag_cap
                    THEN new.mag_cap ELSE @,
           !.level = new_level ]
  ELSE [ st EXCEPT
           !.ammo = IF st.ammo > new.mag_cap THEN new.mag_cap ELSE @,
           !.magazines = IF st.magazines > new.mags_max THEN new.mags_max ELSE @,
           !.level = new_level ]

\* the caps of a tier for a player's upgrade levels
level_caps(st, props) ==
  [ mag_cap |-> props.magazine_capacity + st.mag_upgrade_level,
    mags_max |-> props.magazines_max + st.mag_capacity_level ]

check_level_change(st, prev_xp) ==
  level_changed(st, hundreds_level(prev_xp), hundreds_level(st.xp),
                level_caps(st, get_level_properties(prev_xp)),
                level_caps(st, get_level_properties(st.xp)))

\* unconfiscate_confiscated_in_channel(channel, network)
unconfiscate_confiscated_in_channel(pl, key) ==
  [ k \in DOMAIN pl |->
      IF k[2] = key /\ pl[k].confiscated THEN [ pl[k] EXCEPT !.confiscated = FALSE ]
      ELSE pl[k] ]

\* --------------------------------------------------------------- shop prices
\* shop_items[id]['cost'] with the fallback prices of setup_networks
item_cost(item_id) ==
  CASE item_id = 1 -> 7   [] item_id = 2 -> 20  [] item_id = 3 -> 15
    [] item_id = 4 -> 25  [] item_id = 5 -> 40  [] item_id = 6 -> 8
    [] item_id = 7 -> 6   [] item_id = 8 -> 15  [] item_id = 9 -> 5
    [] item_id = 10 -> 13 [] item_id = 11 -> 5  [] item_id = 12 -> 7
    [] item_id = 13 -> 7  [] item_id = 14 -> 7  [] item_id = 15 -> 7
    [] item_id = 16 -> 10 [] item_id = 17 -> 14 [] item_id = 18 -> 10
    [] item_id = 19 -> 5  [] item_id = 20 -> 50 [] item_id = 21 -> 50
    [] item_id = 22 -> 200 [] item_id = 23 -> 200 [] item_id = 24 -> 15

\* ------------------------------------------------------------------- state
VARIABLES
  now,                  \* time.time(), in whole seconds
  registered,           \* network -> hasattr(network, 'registration_complete')
  members,              \* network.channels: key -> set of users
  channel_next_spawn,   \* key -> due time or None
  channel_pre_notice,   \* key -> time
  channel_notice_sent,  \* key -> BOOLEAN
  channel_last_spawn,   \* key -> time of the last natural spawn
  duck_call_schedule,   \* key -> list of extra due times
  last_despawn_check,   \* network -> time
  active_ducks,         \* key -> list of ducks (a key may be absent)
  players,              \* <<user, key>> -> record
  nextId,               \* history: identity given to the next duck
  departed,             \* history: duck id -> number of times it left a queue
  shot_by,              \* history: duck id -> players whose ducks_shot it raised
  befriended_by,        \* history: duck id -> players whose befriended_ducks it raised
  natGap,               \* history: key -> gap measured at the last natural spawn
  lastOp,               \* history: the last handler run, its inputs and outcome
  ticked,               \* networks whose loop has run since time last moved
  cmds,                 \* commands handled so far
  elapses,              \* long waits so far
  running,              \* FALSE once an unhandled exception has ended the process
  quota,                \* commands the run may handle
  shop_item_23_cost,    \* shop_items[23]['cost'], raised by every purchase of the upgrade
  channel_stats,        \* the rows of the relational store's channel_stats table
  channel_stats_backup, \* backup id -> the rows copied to channel_stats_backup
  should_restart,       \* set by the owner's restart command
  tasks,                \* network -> position of its run_network task
  data_file,            \* the records of duckhunt.data as last written by save_player_data
  notices,              \* history: the detector notices sent (user, channel, due time, pre-notice time, time, sender)
  probe                 \* inputs and results of the pure-function harness; ducks_lock

vars == << now, registered, members, channel_next_spawn, channel_pre_notice,
           channel_notice_sent, channel_last_spawn, duck_call_schedule,
           last_despawn_check, active_ducks, players, nextId, departed, shot_by,
           befriended_by, natGap, lastOp, ticked, cmds, elapses, running, probe, quota,
           shop_item_23_cost, channel_stats, channel_stats_backup, should_restart, tasks,
           data_file, notices >>

schedVars == << channel_next_spawn, channel_pre_notice, channel_notice_sent,
                channel_last_spawn >>
histVars == << departed, shot_by, befriended_by >>

NoOp == [ op |-> "none" ]
NoProbe == [ kind |-> "none" ]

\* the state after DuckHuntBot.__init__ with an empty data file
InitGame ==
  /\ now = 1
  /\ registered = [n \in Networks |-> FALSE]
  /\ members = EmptyDict
  /\ channel_next_spawn = EmptyDict
  /\ channel_pre_notice = EmptyDict
  /\ channel_notice_sent = EmptyDict
  /\ channel_last_spawn = EmptyDict
  /\ duck_call_schedule = EmptyDict
  /\ last_despawn_check = [n \in Networks |-> 0]
  /\ active_ducks = EmptyDict
  /\ nextId = 1
  /\ departed = EmptyDict
  /\ shot_by = EmptyDict
  /\ befriended_by = EmptyDict
  /\ natGap = EmptyDict
  /\ lastOp = NoOp
  /\ ticked = {}
  /\ cmds = 0
  /\ elapses = 0
  /\ running = TRUE
  /\ notices = {}
  /\ should_restart = FALSE
  /\ channel_stats_backup = EmptyDict
  /\ shop_item_23_cost = item_cost(23)

\* ------------------------------------------------------------ SpawnScheduler
\* (a scheduler that always answers "now")
due_at_once(t, last, min_spawn, max_spawn, allow_immediate) == { t }

\* (a scheduler that always answers "in a second")
due_next_second(t, last, min_spawn, max_spawn, allow_immediate) == { t + 1 }

\* the due times schedule_channel_next_duck can compute (randint is inclusive)
schedule_due_times(t, last, min_spawn, max_spawn, allow_immediate) ==
  IF last = 0 THEN { t + d : d \in min_spawn..max_spawn }
  ELSE LET earliest_allowed == last + min_spawn
           latest_allowed == last + max_spawn
       IN
       IF t > latest_allowed
       THEN IF allow_immediate THEN { t } ELSE { t + d : d \in 10..30 }
       ELSE IF t >= earliest_allowed
       THEN { t + d : d \in 1..Max(1, Max(0, latest_allowed - t)) }
       ELSE { t + d : d \in (earliest_allowed - t)..(latest_allowed - t) }

\* (a scheduler that records no due time)
schedule_nothing(sv, key, t, due_time) == << DictSet(sv[1], key, None), sv[2], sv[3], sv[4] >>

\* schedule_channel_next_duck: the four schedule dicts after due_time is chosen
schedule_channel_next_duck(sv, key, t, due_time) ==
  << DictSet(sv[1], key, due_time),
     DictSet(sv[2], key, Max(t, due_time - 120)),
     DictSet(sv[3], key, FALSE),
     sv[4] >>

\* ------------------------------------------------------------ DuckPopulation
new_duck(id, is_golden, t) ==
  [ id |-> id, golden |-> is_golden, health |-> IF is_golden THEN 5 ELSE 1,
    spawn_time |-> t, revealed |-> FALSE, hissed |-> FALSE ]

duck_count(ad, key) == Len(DictGet(ad, key, << >>))

\* can_spawn_duck
can_spawn_duck(ad, key, n) == duck_count(ad, key) < get_network_max_ducks(n)

\* (a spawn that puts the new duck in front)
spawn_duck_first(ad, key, n, duck) ==
  LET withKey == IF DictHas(ad, key) THEN ad ELSE DictSet(ad, key, << >>) IN
  IF Len(withKey[key]) >= get_network_max_ducks(n) THEN withKey
  ELSE DictSet(withKey, key, << duck >> \o withKey[key])

\* a task that enters without waiting for the lock
barges(n) == TRUE

\* the locked part of spawn_duck: the queue after the capacity check and append
spawn_duck(ad, key, n, duck) ==
  LET withKey == IF DictHas(ad, key) THEN ad ELSE DictSet(ad, key, << >>) IN
  IF Len(withKey[key]) >= get_network_max_ducks(n) THEN withKey
  ELSE DictSet(withKey, key, Append(withKey[key], duck))

\* whether that call appended
spawn_accepts(ad, key, n) == duck_count(ad, key) < get_network_max_ducks(n)

\* python's list filter, keeping order
RECURSIVE keep_young(_, _, _)
keep_young(ducks, t, despawn_time) ==
  IF ducks = << >> THEN << >>
  ELSE LET rest == keep_young(Tail(ducks), t, despawn_time) IN
       IF t - Head(ducks).spawn_time < despawn_time THEN << Head(ducks) >> \o rest
       ELSE rest

SeqIds(ducks) == { ducks[i].id : i \in DOMAIN ducks }

\* despawn_old_ducks(network): every channel of every network is swept with the
\* calling network's despawn_time; a channel left empty loses its key
despawn_old_ducks(ad, t, n) ==
  LET dt == get_network_despawn_time(n)
      kept == [ k \in DOMAIN ad |-> keep_young(ad[k], t, dt) ]
      live == { k \in DOMAIN ad : kept[k] # << >> }
  IN [ k \in live |-> kept[k] ]

\* ids removed by that sweep, and the channels that lost a duck
despawned_ids(ad, t, n) ==
  UNION { SeqIds(ad[k]) : k \in DOMAIN ad } \
  UNION { SeqIds(despawn_old_ducks(ad, t, n)[k]) : k \in DOMAIN despawn_old_ducks(ad, t, n) }

despawned_keys(ad, t, n) ==
  { k \in DOMAIN ad :
      Len(keep_young(ad[k], t, get_network_despawn_time(n))) < Len(ad[k]) }

RECURSIVE unconfiscate_all(_, _)
unconfiscate_all(pl, keys) ==
  IF keys = {} THEN pl
  ELSE LET k == CHOOSE x \in keys : TRUE IN
       unconfiscate_all(unconfiscate_confiscated_in_channel(pl, k), keys \ {k})

\* history bookkeeping: one more departure for each id
count_departures(dep, ids) ==
  [ i \in (DOMAIN dep) \cup ids |->
      IF i \in ids THEN DictGet(dep, i, 0) + 1 ELSE dep[i] ]

\* list.remove(x): drops the first occurrence
RECURSIVE SeqRemove(_, _)
SeqRemove(q, x) ==
  IF q = << >> THEN << >>
  ELSE IF Head(q) = x THEN Tail(q)
  ELSE << Head(q) >> \o SeqRemove(Tail(q), x)

\* [t for t in list if t <= now]
RECURSIVE due_now(_, _)
due_now(q, t) ==
  IF q = << >> THEN << >>
  ELSE IF Head(q) <= t THEN << Head(q) >> \o due_now(Tail(q), t)
  ELSE due_now(Tail(q), t)

\* run_network, duck-call part: the loop over the due extra times of one channel;
\* golds[i] is the golden roll of the i-th due time
RECURSIVE process_duck_calls(_, _, _, _, _, _, _, _)
process_duck_calls(ad, sched, dues, i, t, key, golds, id) ==
  IF i > Len(dues) THEN [ ad |-> ad, sched |-> sched, id |-> id ]
  ELSE IF can_spawn_duck(ad, key, key[1])
  THEN process_duck_calls(spawn_duck(ad, key, key[1], new_duck(id, golds[i], t)),
                          SeqRemove(sched, dues[i]), dues, i + 1, t, key, golds, id + 1)
  ELSE process_duck_calls(ad, Append(SeqRemove(sched, dues[i]), t + 5),
                          dues, i + 1, t, key, golds, id)

\* ------------------------------------------------ registration and the tick
\* the first due time: schedule_channel_next_duck with the channel's last spawn
first_dues(n) ==
  schedule_due_times(now, DictGet(channel_last_spawn, get_network_channel_key(n, TheChannel), 0),
                     get_network_min_spawn(n), get_network_max_spawn(n), TRUE)

\* complete_registration: join the configured channel (the NAMES reply fills the
\* membership) and schedule the first duck
complete_registration(n, due) ==
  LET key == get_network_channel_key(n, TheChannel)
      sv == schedule_channel_next_duck(
              << channel_next_spawn, channel_pre_notice, channel_notice_sent,
                 channel_last_spawn >>, key, now, due)
  IN
  /\ running
  /\ ~registered[n]
  /\ registered' = [registered EXCEPT ![n] = TRUE]
  /\ members' = DictSet(members, key, Users)
  /\ channel_next_spawn' = sv[1]
  /\ channel_pre_notice' = sv[2]
  /\ channel_notice_sent' = sv[3]
  /\ channel_last_spawn' = sv[4]
  /\ lastOp' = [ op |-> "register", net |-> n ]
  /\ UNCHANGED << now, duck_call_schedule, last_despawn_check, active_ducks, players,
                  nextId, departed, shot_by, befriended_by, natGap, ticked, cmds,
                  elapses, running, probe, quota, shop_item_23_cost, channel_stats,
                  channel_stats_backup, should_restart, tasks, data_file, notices >>

\* notify_duck_detector: the notice flag of the channel after the pre-notice pass
notify_duck_detector(sent, key, t) ==
  IF /\ DictHas(channel_next_spawn, key)
     /\ DictHas(channel_pre_notice, key)
     /\ ~DictGet(sent, key, FALSE)
     /\ t >= channel_pre_notice[key]
  THEN DictSet(sent, key, TRUE)
  ELSE sent

\* "if when and now >= when"
spawn_is_due(key, t) ==
  /\ DictHas(channel_next_spawn, key)
  /\ channel_next_spawn[key] # None
  /\ channel_next_spawn[key] # 0
  /\ t >= channel_next_spawn[key]

\* run_network, one pass of the loop body after registration: pre-notices, due
\* natural spawns, due duck-call spawns (full pass only), throttled despawn sweep
\* (full pass only).  defer, gold, due and golds are the random draws.
run_network_pass(n, full, defer, gold, due, golds) ==
  LET key == get_network_channel_key(n, TheChannel)
      sent1 == notify_duck_detector(channel_notice_sent, key, now)
      users_with_detector ==
        IF sent1 = channel_notice_sent THEN { }
        ELSE { k \in DOMAIN players : k[2] = key /\ players[k].ducks_detector_until > now }
      isDue == spawn_is_due(key, now)
      room == can_spawn_duck(active_ducks, key, n)
      natural == isDue /\ room
      last == DictGet(channel_last_spawn, key, 0)
      ad1 == IF natural THEN spawn_duck(active_ducks, key, n, new_duck(nextId, gold, now))
             ELSE active_ducks
      id1 == IF natural THEN nextId + 1 ELSE nextId
      sv1 == IF natural
             THEN schedule_channel_next_duck(
                    << channel_next_spawn, channel_pre_notice, sent1,
                       DictSet(channel_last_spawn, key, now) >>, key, now, due)
             ELSE IF isDue
             THEN << DictSet(channel_next_spawn, key, now + defer), channel_pre_notice,
                     sent1, channel_last_spawn >>
             ELSE << channel_next_spawn, channel_pre_notice, sent1, channel_last_spawn >>
      calls == DictGet(duck_call_schedule, key, << >>)
      dues == IF full THEN due_now(calls, now) ELSE << >>
      bc == process_duck_calls(ad1, calls, dues, 1, now, key, golds, id1)
      sweep == full /\ now - last_despawn_check[n] >= 1
      ad3 == IF sweep THEN despawn_old_ducks(bc.ad, now, n) ELSE bc.ad
      gone == IF sweep THEN despawned_ids(bc.ad, now, n) ELSE {}
      goneKeys == IF sweep THEN despawned_keys(bc.ad, now, n) ELSE {}
  IN
  /\ channel_next_spawn' = sv1[1]
  /\ channel_pre_notice' = sv1[2]
  /\ channel_notice_sent' = sv1[3]
  /\ channel_last_spawn' = sv1[4]
  /\ duck_call_schedule' = IF dues = << >> THEN duck_call_schedule
                           ELSE DictSet(duck_call_schedule, key, bc.sched)
  /\ last_despawn_check' = IF sweep THEN [last_despawn_check EXCEPT ![n] = now]
                           ELSE last_despawn_check
  /\ active_ducks' = ad3
  /\ players' = unconfiscate_all(players, goneKeys)
  /\ nextId' = bc.id
  /\ departed' = count_departures(departed, gone)
  /\ natGap' = IF natural /\ last # 0 THEN DictSet(natGap, key, now - last) ELSE natGap
  /\ notices' = notices \cup { [ user |-> k[1], key |-> key, due |-> channel_next_spawn[key],
                                 at |-> now, by |-> "tick",
                                 pre |-> channel_pre_notice[key] ] : k \in users_with_detector }
  /\ lastOp' = [ op |-> "tick", net |-> n ]
  /\ ticked' = ticked \cup {n}
  /\ UNCHANGED << now, registered, members, shot_by, befriended_by, cmds, elapses, running, probe,
             quota, shop_item_23_cost, channel_stats, channel_stats_backup,
             should_restart, tasks, data_file >>

\* the draws a pass makes in the current state: the deferral of a due spawn that
\* finds the channel full, the golden roll and the next due time of a natural
\* spawn, the golden rolls of the duck-call spawns
pass_defers(n) ==
  LET key == get_network_channel_key(n, TheChannel) IN
  IF spawn_is_due(key, now) /\ ~can_spawn_duck(active_ducks, key, n) THEN randint(5, 15) ELSE { 5 }
pass_natural(n) ==
  LET key == get_network_channel_key(n, TheChannel) IN
  spawn_is_due(key, now) /\ can_spawn_duck(active_ducks, key, n)
pass_dues(n) ==
  IF pass_natural(n)
  THEN schedule_due_times(now, now, get_network_min_spawn(n), get_network_max_spawn(n), TRUE)
  ELSE { 0 }
pass_golds(n) == IF pass_natural(n) THEN BOOLEAN ELSE { FALSE }
burst_golds(n) ==
  LET key == get_network_channel_key(n, TheChannel) IN
  [ 1..Len(due_now(DictGet(duck_call_schedule, key, << >>), now)) -> BOOLEAN ]

\* a full pass of the loop (data was read) ...
Tick(n) ==
  /\ running
  /\ registered[n]
  /\ n \notin ticked
  /\ \E defer \in pass_defers(n), gold \in pass_golds(n), due \in pass_dues(n),
        golds \in burst_golds(n) :
       run_network_pass(n, TRUE, defer, gold, due, golds)

\* ... and the idle pass: pre-notices and natural spawns only
IdleTick(n) ==
  /\ running
  /\ registered[n]
  /\ n \notin ticked
  /\ \E defer \in pass_defers(n), gold \in pass_golds(n), due \in pass_dues(n) :
       run_network_pass(n, FALSE, defer, gold, due, << >>)

\* one second passes; every network has registered and its loop has run in the
\* meantime
Second ==
  /\ running
  /\ now < MaxTime
  /\ \A n \in Networks : registered[n] /\ n \in ticked
  /\ now' = now + 1
  /\ ticked' = {}
  /\ lastOp' = [ op |-> "time" ]
  /\ UNCHANGED << registered, members, channel_next_spawn, channel_pre_notice,
                  channel_notice_sent, channel_last_spawn, duck_call_schedule,
                  last_despawn_check, active_ducks, players, nextId, departed, shot_by,
                  befriended_by, natGap, cmds, elapses, running, probe, quota,
                  shop_item_23_cost, channel_stats, channel_stats_backup, should_restart,
                  tasks, data_file, notices >>

day == 24 * 3600

\* ------------------------------------------------------------------- loot
LootNames == { "extra_bullet", "sight_next", "silencer", "ducks_detector", "extra_mag",
               "ap_ammo", "grease", "sunglasses", "explosive_ammo", "infrared",
               "wallet_150xp", "hunting_mag", "clover", "junk" }

\* the second draw some loot makes: the hunting magazine's XP, the clover's bonus
loot_options(choice) ==
  IF choice = "hunting_mag" THEN randint(10, 100)
  ELSE IF choice = "clover" THEN randint(1, 10)
  ELSE { 0 }

\* apply_weighted_loot: the record after loot `choice` (opt is its second draw)
apply_weighted_loot(st, choice, opt, t) ==
  LET magazine_capacity == st.magazine_capacity
      mags_max == st.magazines_max
      gain(x) == [ st EXCEPT !.xp = safe_xp_operation(st.xp, "add", x) ]
  IN
  CASE choice = "extra_bullet" ->
         IF st.ammo < magazine_capacity
         THEN [ st EXCEPT !.ammo = Min(magazine_capacity, st.ammo + 1) ]
         ELSE gain(7)
    [] choice = "extra_mag" ->
         IF st.magazines < mags_max
         THEN [ st EXCEPT !.magazines = Min(mags_max, st.magazines + 1) ]
         ELSE gain(20)
    [] choice = "sight_next" ->
         IF st.sight_next_shot THEN gain(item_cost(7))
         ELSE [ st EXCEPT !.sight_next_shot = TRUE ]
    [] choice = "silencer" ->
         IF st.silencer_until > t THEN gain(item_cost(9))
         ELSE [ st EXCEPT !.silencer_until = t + day ]
    [] choice = "ducks_detector" ->
         IF st.ducks_detector_until > t THEN gain(item_cost(21))
         ELSE [ st EXCEPT !.ducks_detector_until = t + 4 * 3600 ]
    [] choice = "ap_ammo" ->
         IF st.ap_shots > 0 THEN gain(item_cost(3))
         ELSE [ st EXCEPT !.explosive_shots = 0, !.ap_shots = 20 ]
    [] choice = "explosive_ammo" ->
         IF st.explosive_shots > 0 THEN gain(item_cost(4))
         ELSE [ st EXCEPT !.ap_shots = 0, !.explosive_shots = 20 ]
    [] choice = "grease" ->
         IF st.grease_until > t THEN gain(item_cost(6))
         ELSE [ st EXCEPT !.grease_until = t + day ]
    [] choice = "sunglasses" ->
         IF st.sunglasses_until > t THEN gain(item_cost(11))
         ELSE [ st EXCEPT !.sunglasses_until = t + day ]
    [] choice = "infrared" ->
         IF st.trigger_lock_until > t /\ st.trigger_lock_uses > 0 THEN gain(item_cost(8))
         ELSE [ st EXCEPT !.trigger_lock_until = t + day,
                          !.trigger_lock_uses = Max(st.trigger_lock_uses, 6) ]
    [] choice = "wallet_150xp" -> gain(150)
    [] choice = "hunting_mag" ->
         IF st.magazines >= mags_max THEN gain(opt)
         ELSE [ st EXCEPT !.magazines = Min(mags_max, st.magazines + 1) ]
    [] choice = "clover" ->
         IF st.clover_until > t THEN gain(item_cost(10))
         ELSE [ st EXCEPT !.clover_bonus = opt,
                          !.clover_until = Max(st.clover_until, t + day) ]
    [] OTHER -> st

\* ------------------------------------------------------------------ !bang
\* [u for u in network.channels[channel] if u != user and u != bot_nick]
candidates(key, u) == DictGet(members, key, {}) \ { u, bot_nick }

\* the victim draw: nobody, or one of the candidates
victim_draws(key, u) == { NoVictim } \cup candidates(key, u)

\* math.floor(p / 2) while liability insurance runs, p otherwise
liability_halved(st, p, t) ==
  IF st.liability_insurance_until > t /\ p < 0 THEN p \div 2 ELSE p

\* "mirror glare": the victim's mirror costs a shooter without sunglasses
\* extra = -1 (halved and floored under liability insurance), applied with 'add'
mirror_glare(st, vstats, t) ==
  IF vstats.mirror_until > t /\ ~(st.sunglasses_until > t)
  THEN [ st EXCEPT !.xp = safe_xp_operation(st.xp, "add",
                                            IF st.liability_insurance_until > t
                                            THEN (-1) \div 2 ELSE -1) ]
  ELSE st

\* handle_bang, no duck in the channel and no trigger lock: the shooter's record
\* after the wild fire (pen and victim are the random draws)
wild_fire(st, pl, key, pen, victim, t) ==
  LET wild_pen == liability_halved(st, -2, t)
      total_pen == (-pen) + wild_pen
      s1 == [ st EXCEPT !.confiscated = TRUE,
                        !.xp = safe_xp_operation(st.xp, "subtract", -total_pen),
                        !.wild_fires = @ + 1 ]
      acc_pen == liability_halved(s1, s1.accident_penalty, t)
      s2 == [ s1 EXCEPT !.accidents = @ + 1,
                        !.xp = safe_xp_operation(s1.xp, "subtract", -acc_pen),
                        !.confiscated = IF s1.life_insurance_until > t THEN FALSE ELSE @ ]
      s3 == IF victim = NoVictim THEN s1
            ELSE mirror_glare(s2, get_channel_stats(pl, victim, key), t)
  IN check_level_change(s3, st.xp)

\* (a miss that puts the round back)
miss_keeps_round(st, pl, key, pen, victim, t) == [ st EXCEPT !.ammo = @ + 1 ]

\* handle_bang, duck present, shot fired and missed: the shooter's record
\* (st already has the bullet spent)
missed_shot(st, pl, key, pen, victim, t) ==
  LET s1 == [ st EXCEPT !.misses = @ + 1,
                        !.xp = safe_xp_operation(st.xp, "subtract", pen) ]
      acc_pen == liability_halved(s1, s1.accident_penalty, t)
      s2 == [ s1 EXCEPT !.accidents = @ + 1,
                        !.xp = safe_xp_operation(s1.xp, "subtract", -acc_pen),
                        !.confiscated = ~(s1.life_insurance_until > t) ]
      s3 == IF victim = NoVictim THEN s1
            ELSE mirror_glare(s2, get_channel_stats(pl, victim, key), t)
  IN check_level_change(s3, st.xp)

\* compute_accuracy's side effect: the sight is used up by the shot
spend_sight(st) == [ st EXCEPT !.sight_next_shot = FALSE ]

\* (a shot that ignores the special ammunition)
one_damage(st, duck) == 1

\* damage of a shot that hits `duck`, and the ammunition it uses up
shot_damage(st, duck) ==
  IF duck.golden /\ (st.explosive_shots > 0 \/ st.ap_shots > 0) THEN 2 ELSE 1

\* (a hit that uses up no special ammunition)
spend_nothing(st, duck) == st

spend_special(st, duck) ==
  IF duck.golden /\ st.explosive_shots > 0
  THEN [ st EXCEPT !.explosive_shots = Max(0, @ - 1) ]
  ELSE IF duck.golden /\ st.ap_shots > 0
  THEN [ st EXCEPT !.ap_shots = Max(0, @ - 1) ]
  ELSE st

\* base XP of a kill: 50 for a golden duck, default_xp otherwise
default_xp == 10
base_xp(duck) == IF duck.golden THEN 50 ELSE default_xp

\* (a kill that forgets the clover)
xp_gain_no_clover(st, duck, t) == base_xp(duck)

\* XP of a kill or of a completed befriend
xp_gain_of(st, duck, t) ==
  IF st.clover_until > t THEN base_xp(duck) + st.clover_bonus ELSE base_xp(duck)

\* total_reaction_time and best_time bookkeeping
record_reaction(st, reaction_time) ==
  [ st EXCEPT !.total_reaction_time = @ + reaction_time,
              !.best_time = IF @ = None \/ @ = 0 THEN reaction_time
                            ELSE IF reaction_time < @ THEN reaction_time ELSE @ ]

\* (a hit that never removes the duck)
hit_head_stays(ad, key, damage) == ad

\* the queue after the head was hit for `damage`: the head leaves when its health
\* is used up (and the key with it when the list empties), otherwise it stays, hurt
hit_head(ad, key, damage) ==
  LET q == ad[key]
      target_duck == Head(q)
      health == target_duck.health - damage
  IN
  IF health <= 0
  THEN IF Tail(q) = << >> THEN DictDel(ad, key) ELSE DictSet(ad, key, Tail(q))
  ELSE DictSet(ad, key,
               << [ target_duck EXCEPT !.health = health,
                                       !.revealed = IF target_duck.golden THEN TRUE ELSE @ ] >>
               \o Tail(q))

\* handle_bang, the shot hits: the shooter's record (st already has the bullet
\* spent); loot = "none" when the 10% drop does not happen
hit_shot(st, target_duck, loot, opt, t) ==
  LET damage == shot_damage(st, target_duck)
      duck_killed == target_duck.health - damage <= 0
      xp_gain == IF duck_killed THEN xp_gain_of(st, target_duck, t) ELSE 0
      s1 == [ spend_special(st, target_duck) EXCEPT
                !.confiscated = IF duck_killed THEN FALSE ELSE @,
                !.last_duck_time = t,
                !.ducks_shot = IF duck_killed THEN @ + 1 ELSE @,
                !.golden_ducks = IF duck_killed /\ target_duck.golden THEN @ + 1 ELSE @,
                !.xp = safe_xp_operation(st.xp, "add", xp_gain) ]
      s2 == record_reaction(s1, t - target_duck.spawn_time)
      s3 == IF xp_gain # 0 THEN check_level_change(s2, st.xp) ELSE s2
  IN IF duck_killed /\ loot # "none" THEN apply_weighted_loot(s3, loot, opt, t) ELSE s3

\* (a !bang that tests nothing before it looks for the duck)
shoots_unchecked(st, key) == IF DictHas(active_ducks, key) THEN "shoot" ELSE "wildfire"

\* (a shot that passes over the safety lock)
lock_ignored(st, key) ==
  IF st.confiscated \/ st.jammed \/ st.ammo <= 0 \/ st.soaked_until > now \/ st.egged
  THEN "rejected"
  ELSE IF ~DictHas(active_ducks, key) THEN "wildfire"
  ELSE IF active_ducks[key] = << >> THEN "crash"
  ELSE "shoot"

\* the outcomes a !bang can draw in the current state
bang_stage(st, key) ==
  IF st.confiscated \/ st.jammed \/ st.ammo <= 0 \/ st.soaked_until > now \/ st.egged
  THEN "rejected"
  ELSE IF ~DictHas(active_ducks, key)
  THEN IF st.trigger_lock_until > now /\ st.trigger_lock_uses > 0 THEN "locked"
       ELSE "wildfire"
  ELSE IF active_ducks[key] = << >> THEN "crash"
  ELSE "shoot"

bang_rolls(stage) ==
  IF stage = "shoot" THEN { "jam", "miss", "hit" } ELSE { stage }

\* the draws each roll goes on to make
bang_penalties(roll) == IF roll \in { "wildfire", "miss" } THEN randint(1, 5) ELSE { 1 }
bang_victims(roll, key, u) ==
  IF roll \in { "wildfire", "miss" } THEN victim_draws(key, u) ELSE { NoVictim }
bang_loots(roll, st, key) ==
  IF roll = "hit" /\ Head(active_ducks[key]).health - shot_damage(st, Head(active_ducks[key])) <= 0
  THEN LootNames \cup { "none" }
  ELSE { "none" }

\* handle_bang(user, channel, network)
handle_bang(n, u) ==
  LET key == get_network_channel_key(n, TheChannel)
      pl0 == fetch_players(players, u, key)
      st0 == pl0[<<u, key>>]
      stage == bang_stage(st0, key)
      fired == [ st0 EXCEPT !.ammo = @ - 1, !.shots_fired = @ + 1 ]
      aimed == spend_sight(fired)
      \* the early returns, in the order the handler tests them
      refusal == IF st0.confiscated THEN "confiscated"
                 ELSE IF st0.jammed THEN "jammed"
                 ELSE IF st0.ammo <= 0 THEN "empty"
                 ELSE IF st0.soaked_until > now THEN "soaked"
                 ELSE IF st0.egged THEN "egged"
                 ELSE "none"
  IN
  /\ running
  /\ registered[n]
  /\ cmds < quota
  /\ \E roll \in bang_rolls(stage) :
     \E pen \in bang_penalties(roll),
        victim \in bang_victims(roll, key, u),
        loot \in bang_loots(roll, aimed, key) :
     \E opt \in loot_options(loot) :
       LET accident == roll \in { "wildfire", "miss" }
           target_duck == IF roll = "hit" THEN Head(active_ducks[key]) ELSE new_duck(0, FALSE, 0)
           duck_killed == roll = "hit" /\ target_duck.health - shot_damage(aimed, target_duck) <= 0
           pl1 == IF accident /\ victim # NoVictim THEN fetch_players(pl0, victim, key) ELSE pl0
           pl2 == IF duck_killed THEN unconfiscate_confiscated_in_channel(pl1, key) ELSE pl1
           st1 == CASE roll = "locked" ->
                         [ st0 EXCEPT !.trigger_lock_uses = Max(0, @ - 1),
                                      !.trigger_lock_until =
                                          IF Max(0, st0.trigger_lock_uses - 1) = 0 THEN 0 ELSE @ ]
                    [] roll = "wildfire" -> wild_fire(st0, pl0, key, pen, victim, now)
                    [] roll = "jam" -> [ st0 EXCEPT !.jammed = TRUE ]
                    [] roll = "miss" -> missed_shot(aimed, pl0, key, pen, victim, now)
                    [] roll = "hit" -> hit_shot(aimed, target_duck, loot, opt, now)
                    [] OTHER -> st0
       IN
       /\ players' = DictSet(pl2, <<u, key>>, st1)
       /\ active_ducks' = IF roll = "hit"
                          THEN hit_head(active_ducks, key, shot_damage(aimed, target_duck))
                          ELSE active_ducks
       /\ departed' = IF duck_killed THEN count_departures(departed, { target_duck.id })
                      ELSE departed
       /\ shot_by' = IF duck_killed
                     THEN DictSet(shot_by, target_duck.id,
                                  DictGet(shot_by, target_duck.id, {}) \cup { u })
                     ELSE shot_by
       /\ running' = (roll # "crash")
       /\ data_file' = IF roll \in { "rejected", "crash" } THEN data_file
                       ELSE players'
       /\ lastOp' = [ op |-> "bang", net |-> n, user |-> u, outcome |-> roll,
                      killed |-> duck_killed, duck |-> target_duck.id,
                      golden |-> target_duck.golden, loot |-> loot, victim |-> victim,
                      refusal |-> refusal ]
  /\ cmds' = cmds + 1
  /\ UNCHANGED << now, registered, members, channel_next_spawn, channel_pre_notice,
                  channel_notice_sent, channel_last_spawn, duck_call_schedule,
                  last_despawn_check, nextId, befriended_by, natGap, ticked, elapses,
                  probe, quota, shop_item_23_cost, channel_stats, channel_stats_backup,
                  should_restart, tasks, notices >>

\* ------------------------------------------------------------------- !bef
\* the queue with the head removed, and the key with it when the list empties
pop_head(ad, key) ==
  IF Tail(ad[key]) = << >> THEN DictDel(ad, key) ELSE DictSet(ad, key, Tail(ad[key]))

bef_damage(st, duck) == IF duck.golden /\ st.bread_uses > 0 THEN 2 ELSE 1

\* the queue after a befriend attempt that the duck notices
comfort_head(ad, key, damage) ==
  LET duck == Head(ad[key])
      health == duck.health - damage
  IN
  IF duck.golden /\ ~duck.revealed
  THEN DictSet(ad, key, << [ duck EXCEPT !.health = health, !.revealed = TRUE ] >>
                        \o Tail(ad[key]))
  ELSE IF health <= 0 THEN pop_head(ad, key)
  ELSE DictSet(ad, key, << [ duck EXCEPT !.health = health ] >> \o Tail(ad[key]))

\* the failed attempt may turn the duck hostile
hiss_head(ad, key) ==
  DictSet(ad, key, << [ Head(ad[key]) EXCEPT !.hissed = TRUE ] >> \o Tail(ad[key]))

bef_stage(key) ==
  IF ~DictHas(active_ducks, key) THEN "nobody"
  ELSE IF active_ducks[key] = << >> THEN "crash"
  ELSE IF Head(active_ducks[key]).hissed THEN "thrash"
  ELSE "attempt"

bef_rolls(stage) ==
  IF stage = "attempt" THEN { "miss", "comfort" } ELSE { stage }

\* the befriender's record after a noticed attempt on `duck`
comfort(st, duck, t) ==
  LET damage == bef_damage(st, duck)
      s1 == IF damage = 2 THEN [ st EXCEPT !.bread_uses = Max(0, @ - 1) ] ELSE st
      bef_killed == duck.health - damage <= 0
      s2 == record_reaction([ s1 EXCEPT !.confiscated = FALSE, !.last_duck_time = t ],
                            t - duck.spawn_time)
      s3 == [ s2 EXCEPT !.xp = safe_xp_operation(s1.xp, "add", xp_gain_of(s1, duck, t)),
                        !.befriended_ducks = @ + 1 ]
  IN
  IF duck.golden /\ ~duck.revealed THEN s1
  ELSE IF bef_killed THEN check_level_change(s3, s1.xp)
  ELSE s1

\* handle_bef(user, channel, network)
handle_bef(n, u) ==
  LET key == get_network_channel_key(n, TheChannel)
      pl0 == fetch_players(players, u, key)
      st0 == pl0[<<u, key>>]
      stage == bef_stage(key)
  IN
  /\ running
  /\ registered[n]
  /\ cmds < quota
  /\ \E roll \in bef_rolls(stage) :
     \E pen \in (IF roll \in { "nobody", "miss" } THEN randint(1, 10) ELSE { 1 }),
        hiss \in (IF roll = "miss" THEN BOOLEAN ELSE { FALSE }) :
       LET duck == IF roll \in { "thrash", "miss", "comfort" } THEN Head(active_ducks[key])
                   ELSE new_duck(0, FALSE, 0)
           bef_killed == /\ roll = "comfort"
                         /\ ~(duck.golden /\ ~duck.revealed)
                         /\ duck.health - bef_damage(st0, duck) <= 0
           leaves == roll = "thrash" \/ bef_killed
           penalised == [ st0 EXCEPT !.xp = safe_xp_operation(st0.xp, "subtract", pen) ]
           st1 == CASE roll = "nobody" -> check_level_change(penalised, st0.xp)
                    [] roll = "thrash" ->
                         check_level_change(
                           [ st0 EXCEPT !.misses = @ + 1, !.confiscated = FALSE,
                                        !.xp = safe_xp_operation(st0.xp, "subtract", 250) ],
                           st0.xp)
                    [] roll = "miss" ->
                         check_level_change([ penalised EXCEPT !.misses = @ + 1 ], st0.xp)
                    [] roll = "comfort" -> comfort(st0, duck, now)
                    [] OTHER -> st0
           pl1 == IF leaves THEN unconfiscate_confiscated_in_channel(pl0, key) ELSE pl0
       IN
       /\ players' = DictSet(pl1, <<u, key>>, st1)
       /\ active_ducks' = CASE roll = "thrash" -> pop_head(active_ducks, key)
                            [] roll = "miss" -> IF hiss THEN hiss_head(active_ducks, key)
                                                ELSE active_ducks
                            [] roll = "comfort" ->
                                 comfort_head(active_ducks, key, bef_damage(st0, duck))
                            [] OTHER -> active_ducks
       /\ departed' = IF leaves THEN count_departures(departed, { duck.id }) ELSE departed
       /\ befriended_by' = IF bef_killed
                           THEN DictSet(befriended_by, duck.id,
                                        DictGet(befriended_by, duck.id, {}) \cup { u })
                           ELSE befriended_by
       /\ running' = (roll # "crash")
       /\ data_file' = IF roll = "crash" \/ (roll = "comfort" /\ duck.golden /\ ~duck.revealed)
                       THEN data_file
                       ELSE players'
       /\ lastOp' = [ op |-> "bef", net |-> n, user |-> u, outcome |-> roll,
                      killed |-> bef_killed, duck |-> duck.id, golden |-> duck.golden,
                      loot |-> "none", victim |-> NoVictim ]
  /\ cmds' = cmds + 1
  /\ UNCHANGED << now, registered, members, channel_next_spawn, channel_pre_notice,
                  channel_notice_sent, channel_last_spawn, duck_call_schedule,
                  last_despawn_check, nextId, shot_by, natGap, ticked, elapses, probe,
                  quota, shop_item_23_cost, channel_stats, channel_stats_backup,
                  should_restart, tasks, notices >>

\* ---------------------------------------------------------------- !reload
\* handle_reload(user, channel, network)
reloaded(st0) ==
  IF st0.confiscated THEN st0
  ELSE IF st0.jammed THEN [ st0 EXCEPT !.jammed = FALSE ]
  ELSE IF st0.sabotaged THEN [ st0 EXCEPT !.sabotaged = FALSE ]
  ELSE IF st0.ammo = 0 /\ st0.magazines > 0
  THEN [ st0 EXCEPT !.ammo = st0.magazine_capacity, !.magazines = @ - 1 ]
  ELSE st0

handle_reload(n, u) ==
  /\ running
  /\ registered[n]
  /\ cmds < quota
  /\ players' = DictSet(players, <<u, get_network_channel_key(n, TheChannel)>>,
                        reloaded(get_channel_stats(players, u,
                                                   get_network_channel_key(n, TheChannel))))
  /\ data_file' = IF get_channel_stats(players, u,
                                       get_network_channel_key(n, TheChannel)).confiscated
                  THEN data_file ELSE players'
  /\ lastOp' = [ op |-> "reload", net |-> n, user |-> u ]
  /\ cmds' = cmds + 1
  /\ UNCHANGED << now, registered, members, channel_next_spawn, channel_pre_notice,
                  channel_notice_sent, channel_last_spawn, duck_call_schedule,
                  last_despawn_check, active_ducks, nextId, departed, shot_by,
                  befriended_by, natGap, ticked, elapses, running, probe, quota,
                  shop_item_23_cost, channel_stats, channel_stats_backup, should_restart,
                  tasks, notices >>

\* ------------------------------------------------------------------ !shop
ItemIds == 1..24
TargetedItems == { 14, 15, 16, 17 }

\* (a price that ignores the buyer's upgrade levels)
listed_cost(st, item_id) == item_cost(item_id)

\* the price asked: upgrades 22 and 23 are priced by the buyer's current level
shop_cost(st, item_id) ==
  IF item_id = 22 THEN Min(1000, 200 * (st.mag_upgrade_level + 1))
  ELSE IF item_id = 23 THEN Min(1000, 200 * (st.mag_capacity_level + 1))
  ELSE item_cost(item_id)

\* a shop that never finds an item active
never_active(st, item_id, t) == FALSE

\* the "already active" test made before the price is taken
already_active(st, item_id, t) ==
  \/ item_id = 3 /\ st.ap_shots > 0 /\ st.explosive_shots = 0
  \/ item_id = 4 /\ st.explosive_shots > 0 /\ st.ap_shots = 0
  \/ item_id = 6 /\ st.grease_until > t
  \/ item_id = 7 /\ st.sight_next_shot
  \/ item_id = 11 /\ st.sunglasses_until > t

refund(st, amount) == [ st EXCEPT !.xp = safe_xp_operation(st.xp, "add", amount) ]

\* effect of an item that touches only the buyer's record (st has paid `cost`);
\* bonus is the clover draw
item_effect(st, item_id, cost, bonus, t) ==
  CASE item_id = 1 ->
         IF st.ammo < st.magazine_capacity
         THEN [ st EXCEPT !.ammo = Min(st.magazine_capacity, @ + 1) ]
         ELSE refund(st, item_cost(1))
    [] item_id = 2 ->
         IF st.magazines < st.magazines_max
         THEN [ st EXCEPT !.magazines = Min(st.magazines_max, @ + 1) ]
         ELSE refund(st, item_cost(2))
    [] item_id = 3 -> [ st EXCEPT !.explosive_shots = 0, !.ap_shots = 20 ]
    [] item_id = 4 -> [ st EXCEPT !.ap_shots = 0, !.explosive_shots = 20 ]
    [] item_id = 5 ->
         IF st.confiscated
         THEN [ st EXCEPT !.confiscated = FALSE, !.ammo = st.magazine_capacity,
                          !.magazines = st.magazines_max ]
         ELSE refund(st, item_cost(5))
    [] item_id = 6 -> [ st EXCEPT !.grease_until = t + day ]
    [] item_id = 7 -> [ st EXCEPT !.sight_next_shot = TRUE ]
    [] item_id = 8 ->
         IF st.trigger_lock_until > t /\ st.trigger_lock_uses > 0
         THEN refund(st, item_cost(8))
         ELSE [ st EXCEPT !.trigger_lock_until = t + day, !.trigger_lock_uses = 6 ]
    [] item_id = 9 ->
         IF st.silencer_until > t THEN refund(st, item_cost(9))
         ELSE [ st EXCEPT !.silencer_until = t + day ]
    [] item_id = 10 ->
         IF st.clover_until > t THEN refund(st, item_cost(10))
         ELSE [ st EXCEPT !.clover_bonus = bonus, !.clover_until = t + day ]
    [] item_id = 11 -> [ st EXCEPT !.sunglasses_until = t + day ]
    [] item_id = 12 ->
         IF st.soaked_until > t \/ st.egged
         THEN [ st EXCEPT !.soaked_until = IF @ > t THEN 0 ELSE @, !.egged = FALSE ]
         ELSE refund(st, item_cost(12))
    [] item_id = 13 ->
         [ st EXCEPT !.jammed = FALSE, !.sand_until = IF @ > t THEN 0 ELSE @,
                     !.brush_until = Max(@, t + day) ]
    [] item_id = 18 ->
         IF st.life_insurance_until > t THEN refund(st, cost)
         ELSE [ st EXCEPT !.life_insurance_until = t + day ]
    [] item_id = 19 ->
         IF st.liability_insurance_until > t THEN refund(st, cost)
         ELSE [ st EXCEPT !.liability_insurance_until = t + day ]
    [] item_id = 20 ->
         IF st.bread_uses > 0 THEN refund(st, item_cost(20))
         ELSE [ st EXCEPT !.bread_uses = 20 ]
    [] item_id = 21 ->
         IF st.ducks_detector_until > t THEN refund(st, cost)
         ELSE [ st EXCEPT !.ducks_detector_until = t + 4 * 3600 ]
    [] item_id = 22 ->
         IF st.mag_upgrade_level >= 5 THEN refund(st, cost)
         ELSE apply_level_bonuses([ st EXCEPT !.mag_upgrade_level = @ + 1 ])
    [] item_id = 23 ->
         IF st.mag_capacity_level >= 5 THEN refund(st, shop_item_23_cost)
         ELSE [ st EXCEPT !.mag_capacity_level = @ + 1,
                          !.magazines_max = @ + 1,
                          !.magazines = Min(st.magazines_max + 1, @ + 1) ]
    [] OTHER -> st

\* the branches of the effect that refuse the item and hand XP back
no_effect(st, item_id, t) ==
  CASE item_id = 1 -> ~(st.ammo < st.magazine_capacity)
    [] item_id = 2 -> ~(st.magazines < st.magazines_max)
    [] item_id = 5 -> ~st.confiscated
    [] item_id = 8 -> st.trigger_lock_until > t /\ st.trigger_lock_uses > 0
    [] item_id = 9 -> st.silencer_until > t
    [] item_id = 10 -> st.clover_until > t
    [] item_id = 12 -> ~(st.soaked_until > t \/ st.egged)
    [] item_id = 18 -> st.life_insurance_until > t
    [] item_id = 19 -> st.liability_insurance_until > t
    [] item_id = 20 -> st.bread_uses > 0
    [] item_id = 21 -> st.ducks_detector_until > t
    [] item_id = 22 -> st.mag_upgrade_level >= 5
    [] item_id = 23 -> st.mag_capacity_level >= 5
    [] OTHER -> FALSE

\* whether a targeted item takes effect on the target's record
target_hit(tstats, item_id, t) ==
  CASE item_id = 14 -> ~(tstats.sunglasses_until > t)
    [] item_id = 16 -> ~(tstats.soaked_until > t)
    [] OTHER -> TRUE

\* the target's record after a targeted item took effect
target_effect(tstats, item_id, t) ==
  CASE item_id = 14 -> [ tstats EXCEPT !.mirror_until = Max(@, t + day) ]
    [] item_id = 15 -> [ tstats EXCEPT !.sand_until = Max(@, t + 3600) ]
    [] item_id = 16 -> [ tstats EXCEPT !.soaked_until = Max(@, t + 3600) ]
    [] item_id = 17 -> [ tstats EXCEPT !.jammed = TRUE ]
    [] OTHER -> tstats

\* whether the effect of a purchase that has been paid for ends in a refund
refused(pl, u, key, item_id, target, t) ==
  IF item_id \in TargetedItems
  THEN target = NoVictim \/ ~target_hit(get_channel_stats(pl, target, key), item_id, t)
  ELSE no_effect(pl[<<u, key>>], item_id, t)

\* (a purchase that delivers nothing)
no_purchase(pl, u, key, item_id, target, cost, bonus, t) == pl

\* the player table after the effect of a purchase that has been paid for
purchase(pl, u, key, item_id, target, cost, bonus, t) ==
  LET me == <<u, key>> IN
  IF item_id \in TargetedItems
  THEN IF target = NoVictim THEN DictSet(pl, me, refund(pl[me], item_cost(item_id)))
       ELSE LET pl1 == fetch_players(pl, target, key)
                tstats == pl1[<<target, key>>]
            IN IF target_hit(tstats, item_id, t)
               THEN DictSet(pl1, <<target, key>>, target_effect(tstats, item_id, t))
               ELSE DictSet(pl1, me, refund(pl1[me], item_cost(item_id)))
  ELSE DictSet(pl, me, item_effect(pl[me], item_id, cost, bonus, t))

\* (a duck call whose duck is due at once)
calls_at_once(t, i, num_ducks) == << t >>

\* duck call: num_ducks extra due times, one minute apart, the first in a minute
RECURSIVE duck_call_times(_, _, _)
duck_call_times(t, i, num_ducks) ==
  IF i >= num_ducks THEN << >>
  ELSE << t + 60 + i * 60 >> \o duck_call_times(t, i + 1, num_ducks)

\* the steps after the item's effect: re-apply the bonuses, then the level check
\* when the XP moved
settle_purchase(st, prev_xp) ==
  LET s1 == apply_level_bonuses(st) IN
  IF s1.xp # prev_xp THEN check_level_change(s1, prev_xp) ELSE s1

\* the items the players of the model ask for, and the draws of a purchase
ShopIds == { 2, 10, 14, 19, 23, 24 }
shop_targets(item_id) == IF item_id \in TargetedItems THEN Users \cup { NoVictim }
                         ELSE { NoVictim }
shop_bonuses(item_id) == IF item_id = 10 THEN randint(1, 10) ELSE { 0 }
shop_calls(item_id) == IF item_id = 24 THEN randint(1, 5) ELSE { 0 }

\* SQLBackend.update_channel_stats: the row after an update with the fields of
\* `new` that are columns (the computed penalties are filtered out before, 'level'
\* is no column)
update_channel_stats(row, new) ==
  LET valid_fields ==
        { "xp", "ducks_shot", "golden_ducks", "misses", "accidents", "best_time",
          "total_reaction_time", "shots_fired", "last_duck_time", "wild_fires",
          "confiscated", "jammed", "sabotaged", "ammo", "magazines", "ap_shots",
          "explosive_shots", "bread_uses", "befriended_ducks", "trigger_lock_until",
          "trigger_lock_uses", "grease_until", "silencer_until", "sunglasses_until",
          "ducks_detector_until", "mirror_until", "sand_until", "soaked_until",
          "life_insurance_until", "liability_insurance_until", "mag_upgrade_level",
          "mag_capacity_level", "magazine_capacity", "magazines_max",
          "clover_until", "clover_bonus", "brush_until", "sight_next_shot", "egged" }
  IN [ f \in DOMAIN row |-> IF f \in valid_fields THEN new[f] ELSE row[f] ]

\* handle_shop against the relational store, for a buyer who has a row and an item
\* that touches the buyer only: the row is read as stored, both early returns
\* (too poor, already active) write nothing, a purchase writes the row at the end
sql_handle_shop(cs, u, key, item_id, bonus, t) ==
  IF ~DictHas(cs, <<u, key>>) \/ item_id \in TargetedItems THEN cs
  ELSE IF cs[<<u, key>>].xp < shop_cost(cs[<<u, key>>], item_id) THEN cs
  ELSE IF already_active(cs[<<u, key>>], item_id, t) THEN cs
  ELSE DictSet(cs, <<u, key>>,
               update_channel_stats(
                 cs[<<u, key>>],
                 settle_purchase(
                   item_effect([ cs[<<u, key>>] EXCEPT
                                   !.xp = safe_xp_operation(@, "subtract",
                                                            shop_cost(cs[<<u, key>>], item_id)) ],
                               item_id, shop_cost(cs[<<u, key>>], item_id), bonus, t),
                   cs[<<u, key>>].xp)))

\* handle_shop(user, channel, [item_id, target], network)
handle_shop(n, u, item_id) ==
  LET key == get_network_channel_key(n, TheChannel)
      me == <<u, key>>
      pl0 == fetch_players(players, u, key)
      st0 == pl0[me]
      cost == shop_cost(st0, item_id)
      outcome == IF st0.xp < cost THEN "poor"
                 ELSE IF already_active(st0, item_id, now) THEN "active"
                 ELSE "bought"
  IN
  /\ running
  /\ registered[n]
  /\ cmds < quota
  /\ \E target \in shop_targets(item_id), bonus \in shop_bonuses(item_id),
        num_ducks \in shop_calls(item_id) :
       LET paid == DictSet(pl0, me, [ st0 EXCEPT !.xp = safe_xp_operation(@, "subtract", cost) ])
           pl1 == purchase(paid, u, key, item_id, target, cost, bonus, now)
       IN
       /\ players' = CASE outcome = "poor" -> pl0
                       [] outcome = "active" -> DictSet(pl0, me, refund(st0, cost))
                       [] OTHER -> DictSet(pl1, me, settle_purchase(pl1[me], st0.xp))
       /\ duck_call_schedule' =
            IF outcome = "bought" /\ item_id = 24
            THEN DictSet(duck_call_schedule, key,
                         DictGet(duck_call_schedule, key, << >>)
                         \o duck_call_times(now, 0, num_ducks))
            ELSE duck_call_schedule
       /\ notices' =
            IF /\ outcome = "bought" /\ item_id = 21 /\ ~no_effect(st0, item_id, now)
               /\ DictGet(channel_next_spawn, key, None) \notin { None, 0 }
               /\ 0 < channel_next_spawn[key] - now
               /\ channel_next_spawn[key] - now <= 60
            THEN notices \cup { [ user |-> u, key |-> key, due |-> channel_next_spawn[key],
                                  at |-> now, by |-> "shop",
                                  pre |-> DictGet(channel_pre_notice, key, None) ] }
            ELSE notices
       /\ channel_stats' = sql_handle_shop(channel_stats, u, key, item_id, bonus, now)
       /\ data_file' = IF outcome = "bought" THEN players' ELSE data_file
       /\ shop_item_23_cost' =
            IF outcome = "bought" /\ item_id = 23 /\ ~no_effect(st0, item_id, now)
            THEN Min(1000, shop_item_23_cost + 200) ELSE shop_item_23_cost
       /\ lastOp' = [ op |-> "shop", net |-> n, user |-> u, item |-> item_id,
                      outcome |-> IF outcome = "bought" /\ refused(paid, u, key, item_id, target, now)
                                  THEN "refused" ELSE outcome,
                      target |-> target ]
  /\ cmds' = cmds + 1
  /\ UNCHANGED << now, registered, members, channel_next_spawn, channel_pre_notice,
                  channel_notice_sent, channel_last_spawn, last_despawn_check,
                  active_ducks, nextId, departed, shot_by, befriended_by, natGap,
                  ticked, elapses, running, probe, quota, channel_stats_backup,
                  should_restart, tasks >>

\* ----------------------------------------------------------- admin commands
\* !spawnduck [count]: count is capped by max_ducks, then by the room left
\* (golds: the ids whose golden roll succeeds)
RECURSIVE spawn_many(_, _, _, _, _, _, _)
spawn_many(ad, key, n, to_spawn, t, id, golds) ==
  IF to_spawn <= 0 THEN [ ad |-> ad, id |-> id ]
  ELSE spawn_many(spawn_duck(ad, key, n, new_duck(id, id \in golds, t)), key, n,
                  to_spawn - 1, t, IF spawn_accepts(ad, key, n) THEN id + 1 ELSE id, golds)

admin_spawnduck(n, arg, golds) ==
  LET key == get_network_channel_key(n, TheChannel)
      count == Min(arg, get_network_max_ducks(n))
      ad0 == IF DictHas(active_ducks, key) THEN active_ducks
             ELSE DictSet(active_ducks, key, << >>)
      remaining_capacity == Max(0, get_network_max_ducks(n) - Len(ad0[key]))
      to_spawn == Min(count, remaining_capacity)
      r == spawn_many(ad0, key, n, to_spawn, now, nextId, golds)
  IN
  /\ running
  /\ registered[n]
  /\ cmds < quota
  /\ active_ducks' = r.ad
  /\ nextId' = r.id
  /\ lastOp' = [ op |-> "spawnduck", net |-> n, count |-> arg, spawned |-> r.id - nextId ]
  /\ cmds' = cmds + 1
  /\ UNCHANGED << now, registered, members, channel_next_spawn, channel_pre_notice,
                  channel_notice_sent, channel_last_spawn, duck_call_schedule,
                  last_despawn_check, players, departed, shot_by, befriended_by, natGap,
                  ticked, elapses, running, probe, quota, shop_item_23_cost,
                  channel_stats, channel_stats_backup, should_restart, tasks, data_file,
                  notices >>

\* (a !spawngold that never refuses)
gold_never_rejected(q, n) == FALSE

\* !spawngold's own capacity test
gold_rejected(q, n) == Len(q) >= get_network_max_ducks(n)

\* !spawngold: a golden duck unless the channel is full
admin_spawngold(n) ==
  LET key == get_network_channel_key(n, TheChannel)
      ad0 == IF DictHas(active_ducks, key) THEN active_ducks
             ELSE DictSet(active_ducks, key, << >>)
      full == gold_rejected(ad0[key], n)
  IN
  /\ running
  /\ registered[n]
  /\ cmds < quota
  /\ active_ducks' = IF full THEN ad0
                     ELSE DictSet(ad0, key, Append(ad0[key], new_duck(nextId, TRUE, now)))
  /\ nextId' = IF full THEN nextId ELSE nextId + 1
  /\ lastOp' = [ op |-> "spawngold", net |-> n, spawned |-> IF full THEN 0 ELSE 1 ]
  /\ cmds' = cmds + 1
  /\ UNCHANGED << now, registered, members, channel_next_spawn, channel_pre_notice,
                  channel_notice_sent, channel_last_spawn, duck_call_schedule,
                  last_despawn_check, players, departed, shot_by, befriended_by, natGap,
                  ticked, elapses, running, probe, quota, shop_item_23_cost,
                  channel_stats, channel_stats_backup, should_restart, tasks, data_file,
                  notices >>

\* ----------------------------------------------------------- specifications
\* the loop is not run for d seconds (its read waits for the server to send data)
Elapse(d) ==
  /\ running
  /\ elapses < MaxElapses
  /\ now' = now + d
  /\ elapses' = elapses + 1
  /\ ticked' = {}
  /\ lastOp' = [ op |-> "time" ]
  /\ UNCHANGED << registered, members, channel_next_spawn, channel_pre_notice,
                  channel_notice_sent, channel_last_spawn, duck_call_schedule,
                  last_despawn_check, active_ducks, players, nextId, departed, shot_by,
                  befriended_by, natGap, cmds, running, probe, quota, shop_item_23_cost,
                  channel_stats, channel_stats_backup, should_restart, tasks, data_file,
                  notices >>

\* the bot started with an empty player file, every loop running once a second
Init ==
  /\ InitGame
  /\ players = EmptyDict
  /\ probe = NoProbe
  /\ quota = MaxCmds
  /\ tasks = [n \in Networks |-> [pc |-> "read", wake |-> 0]]
  /\ data_file = players
  /\ channel_stats = EmptyDict

Next ==
  \/ \E n \in Networks : \E due \in first_dues(n) : complete_registration(n, due)
  \/ \E n \in Networks : Tick(n)
  \/ \E n \in Networks : IdleTick(n)
  \/ Second

Spec == Init /\ [][Next]_vars

\* a record of the player file: a player who earned `xp` and was last rearmed by an
\* admin (ammo and magazines at the caps of the tier)
rearmed(xp) ==
  LET st == apply_level_bonuses([ default_stats EXCEPT !.xp = xp,
                                                       !.level = hundreds_level(xp) ])
  IN [ st EXCEPT !.ammo = st.magazine_capacity, !.magazines = st.magazines_max ]

\* the network whose channel the players use, and the player file the bot loads:
\* u2 has played before, u1 is new
Played == "n1"
PlayedKey == get_network_channel_key(Played, TheChannel)
LoadedXp == 265
RichXp == 2000
LoadedFile == DictSet(EmptyDict, <<"u2", PlayedKey>>, rearmed(LoadedXp))

InitLoaded ==
  /\ InitGame
  /\ players = LoadedFile
  /\ probe = NoProbe
  /\ quota = MaxCmds
  /\ tasks = [n \in Networks |-> [pc |-> "read", wake |-> 0]]
  /\ data_file = players
  /\ channel_stats = EmptyDict

\* the waits between passes of the loop: a second, a minute
Waits == { 1, 60 }

NextGame ==
  \/ \E due \in first_dues(Played) : complete_registration(Played, due)
  \/ Tick(Played)
  \/ IdleTick(Played)
  \/ \E d \in Waits : Elapse(d)
  \/ \E u \in Users : handle_bang(Played, u)
  \/ \E u \in Users : handle_bef(Played, u)
  \/ \E u \in Users : handle_reload(Played, u)
  \/ \E u \in Users, item_id \in ShopIds : handle_shop(Played, u, item_id)
  \/ \E arg \in 0..3 : \E golds \in { {}, nextId..(nextId + 1) } :
       admin_spawnduck(Played, arg, golds)
  \/ admin_spawngold(Played)

SpecGame == InitLoaded /\ [][NextGame]_vars

\* ------------------------------------------------------- shots at one duck
\* the player file of a run in which u2 has bought armour-piercing ammunition
ArmedFile ==
  DictSet(EmptyDict, <<"u2", PlayedKey>>, [ rearmed(LoadedXp) EXCEPT !.ap_shots = 20 ])

InitHit ==
  /\ InitGame
  /\ players = ArmedFile
  /\ probe = NoProbe
  /\ quota = MaxShots
  /\ tasks = [n \in Networks |-> [pc |-> "read", wake |-> 0]]
  /\ data_file = players
  /\ channel_stats = EmptyDict

\* an admin spawns a duck, golden or not, and the players shoot
NextHit ==
  \/ \E due \in first_dues(Played) : complete_registration(Played, due)
  \/ admin_spawngold(Played)
  \/ admin_spawnduck(Played, 1, {})
  \/ \E u \in Users : handle_bang(Played, u)

SpecHit == InitHit /\ [][NextHit]_vars

\* the same run with the file of a player who comes back in some other condition:
\* unfit to shoot in any combination, holding a safety lock, or holding special
\* ammunition
Kits ==
  { [ rearmed(LoadedXp) EXCEPT !.confiscated = c, !.jammed = j, !.ammo = a,
                               !.soaked_until = s, !.egged = e ] :
      c \in BOOLEAN, j \in BOOLEAN, a \in { 0, rearmed(LoadedXp).ammo }, s \in { 0, day },
      e \in BOOLEAN }
  \cup { [ rearmed(LoadedXp) EXCEPT !.trigger_lock_until = day, !.trigger_lock_uses = k ] :
          k \in 1..2 }
  \cup { [ rearmed(LoadedXp) EXCEPT !.ap_shots = ap, !.explosive_shots = ex ] :
          ap \in { 0, 1 }, ex \in { 0, 1 } }

InitKit ==
  /\ InitGame
  /\ players \in { DictSet(EmptyDict, <<"u2", PlayedKey>>, st) : st \in Kits }
  /\ probe = NoProbe
  /\ quota = MaxKitCmds
  /\ tasks = [n \in Networks |-> [pc |-> "read", wake |-> 0]]
  /\ data_file = players
  /\ channel_stats = EmptyDict

SpecKit == InitKit /\ [][NextHit]_vars

\* ------------------------------------------------------------ purchases
\* a record of the player file: a rearmed player with both upgrades at level lvl
upgraded(xp, lvl) ==
  fully_loaded(apply_level_bonuses([ rearmed(xp) EXCEPT !.mag_upgrade_level = lvl,
                                                        !.mag_capacity_level = lvl ]))

\* the player files a shop run starts from: u2 as in LoadedFile, u2 with both
\* upgrades complete, u2 saved right after the kill that took a once-upgraded
\* player from LoadedXp to the next tier, u2 with XP for two more upgrades from
\* level 1 or level 3
ShopFiles ==
  { LoadedFile,
    DictSet(EmptyDict, <<"u2", PlayedKey>>, upgraded(1300, 5)),
    DictSet(EmptyDict, <<"u2", PlayedKey>>,
            [ upgraded(LoadedXp, 1) EXCEPT !.xp = LoadedXp + default_xp, !.ducks_shot = 1 ]),
    DictSet(EmptyDict, <<"u2", PlayedKey>>, upgraded(RichXp, 1)),
    DictSet(EmptyDict, <<"u2", PlayedKey>>, upgraded(RichXp, 3)) }

InitShop ==
  /\ InitGame
  /\ players \in ShopFiles
  /\ probe = NoProbe
  /\ quota = MaxBuys
  /\ tasks = [n \in Networks |-> [pc |-> "read", wake |-> 0]]
  /\ data_file = players
  /\ channel_stats = EmptyDict

\* the players send !shop with every item of the catalogue
NextShop ==
  \/ \E due \in first_dues(Played) : complete_registration(Played, due)
  \/ \E u \in Users, item_id \in ItemIds : handle_shop(Played, u, item_id)

SpecShop == InitShop /\ [][NextShop]_vars

\* ----------------------------------------------------- the two stores
\* SQLBackend.backup_channel_stats: the rows of the channel, as copied
backup_channel_stats(cs, key) ==
  [ k \in { x \in DOMAIN cs : x[2] = key } |-> cs[k] ]

\* DELETE FROM channel_stats WHERE network_name = ... AND channel_name = ...
\* (also the file-backed branch of !clear: del stats_map[key] for every player)
delete_channel_stats(cs, key) ==
  [ k \in { x \in DOMAIN cs : x[2] # key } |-> cs[k] ]

\* (a restore that inserts nothing)
restore_nothing(cs, rows) == cs

\* SQLBackend.restore_channel_stats: INSERT ... ON DUPLICATE KEY UPDATE of every
\* backed-up row
restore_channel_stats(cs, rows) ==
  [ k \in DOMAIN cs \cup DOMAIN rows |-> IF k \in DOMAIN rows THEN rows[k] ELSE cs[k] ]

\* the snapshots the file-backed store keeps of cleared records: none (the !clear
\* branch deletes and save_player_data rewrites duckhunt.data; !restore answers
\* "only available with SQL backend")
file_backups == { }

\* !clear <channel> by the owner, against both stores
owner_clear(n) ==
  LET key == get_network_channel_key(n, TheChannel)
      stats_to_backup == backup_channel_stats(channel_stats, key)
      \* the id of the backup: network, channel, time stamp and a fresh uuid
      backup_id == Cardinality(DOMAIN channel_stats_backup) + 1
  IN
  /\ running
  /\ registered[n]
  /\ cmds < quota
  /\ channel_stats_backup' =
       IF stats_to_backup = EmptyDict THEN channel_stats_backup
       ELSE DictSet(channel_stats_backup, backup_id, stats_to_backup)
  /\ channel_stats' = delete_channel_stats(channel_stats, key)
  /\ players' = delete_channel_stats(players, key)
  /\ data_file' = players'
  /\ active_ducks' = DictDel(active_ducks, key)
  /\ channel_next_spawn' = DictDel(channel_next_spawn, key)
  /\ channel_pre_notice' = DictDel(channel_pre_notice, key)
  /\ channel_notice_sent' = DictDel(channel_notice_sent, key)
  /\ channel_last_spawn' = DictDel(channel_last_spawn, key)
  /\ lastOp' = [ op |-> "clear", net |-> n,
                 backup |-> IF stats_to_backup = EmptyDict THEN None ELSE backup_id ]
  /\ cmds' = cmds + 1
  /\ UNCHANGED << now, registered, members, duck_call_schedule, last_despawn_check,
                  nextId, departed, shot_by, befriended_by, natGap, ticked, elapses,
                  running, probe, quota, shop_item_23_cost, should_restart, tasks,
                  notices >>

\* !part <channel> by the owner: the channel leaves network.channels and the three
\* schedule dicts that the branch names
owner_part(n) ==
  LET key == get_network_channel_key(n, TheChannel) IN
  /\ running
  /\ registered[n]
  /\ cmds < quota
  /\ members' = DictDel(members, key)
  /\ channel_next_spawn' = DictDel(channel_next_spawn, key)
  /\ channel_pre_notice' = DictDel(channel_pre_notice, key)
  /\ channel_notice_sent' = DictDel(channel_notice_sent, key)
  /\ lastOp' = [ op |-> "part", net |-> n ]
  /\ cmds' = cmds + 1
  /\ UNCHANGED << now, registered, channel_last_spawn, duck_call_schedule,
                  last_despawn_check, active_ducks, players, nextId, departed, shot_by,
                  befriended_by, natGap, ticked, elapses, running, probe, quota,
                  shop_item_23_cost, channel_stats, channel_stats_backup, should_restart,
                  tasks, data_file, notices >>

\* !restore <backup_id> by the owner: the relational store restores, the
\* file-backed store only answers
owner_restore(n, backup_id) ==
  /\ running
  /\ registered[n]
  /\ cmds < quota
  /\ channel_stats' =
       IF DictHas(channel_stats_backup, backup_id)
       THEN restore_channel_stats(channel_stats, channel_stats_backup[backup_id])
       ELSE channel_stats
  /\ lastOp' = [ op |-> "restore", net |-> n, backup |-> backup_id ]
  /\ cmds' = cmds + 1
  /\ UNCHANGED << now, registered, members, channel_next_spawn, channel_pre_notice,
                  channel_notice_sent, channel_last_spawn, duck_call_schedule,
                  last_despawn_check, active_ducks, players, nextId, departed, shot_by,
                  befriended_by, natGap, ticked, elapses, running, probe, quota,
                  shop_item_23_cost, channel_stats_backup, should_restart, tasks,
                  data_file, notices >>

\* the records both stores start with: u2 lost the gun in an accident, u1 has just
\* been rearmed
StoredFile ==
  DictSet(DictSet(EmptyDict, <<"u1", PlayedKey>>, rearmed(0)),
          <<"u2", PlayedKey>>, [ rearmed(LoadedXp) EXCEPT !.confiscated = TRUE ])

InitStore ==
  /\ InitGame
  /\ players = StoredFile
  /\ channel_stats = StoredFile
  /\ probe = NoProbe
  /\ quota = MaxOwner
  /\ tasks = [n \in Networks |-> [pc |-> "read", wake |-> 0]]
  /\ data_file = players

\* the items asked for in the store runs: magazine, armour-piercing ammunition,
\* the confiscated gun, the duck call. A row created on first use takes the column defaults of
\* the schema, which is not part of the source: only players with a row buy.
NextStore ==
  \/ \E due \in first_dues(Played) : complete_registration(Played, due)
  \/ Tick(Played)
  \/ \E d \in { get_network_despawn_time(Played), 60 } : Elapse(d)
  \/ admin_spawnduck(Played, 1, {})
  \/ \E u \in Users, item_id \in { 2, 3, 5, 24 } :
       DictHas(channel_stats, <<u, PlayedKey>>) /\ handle_shop(Played, u, item_id)
  \/ owner_clear(Played)
  \/ \E backup_id \in 0..2 : owner_restore(Played, backup_id)

SpecStore == InitStore /\ [][NextStore]_vars

\* ------------------------------------------------- the functions on their own
\* XP values handed to get_level_properties and safe_xp_operation: from below the
\* lowest threshold to above the highest
XpRange == (0 - XpBelow)..XpAbove

InitPure ==
  /\ InitGame
  /\ players = EmptyDict
  /\ \/ \E x \in XpRange : probe = [ kind |-> "input", xp |-> x, steps |-> 0 ]
     \/ \E last \in { 0, 1, 1000 }, late \in 1..MaxLate :
          probe = [ kind |-> "clock", last |-> last, min_spawn |-> 600, max_spawn |-> 1800,
                    now |-> last + 1800 + late ]
     \/ \E last \in { 1, 1000 }, w \in { <<600, 1800>>, <<900, 900>> } :
          \E off \in { 0, w[1] - 1, w[1], w[1] + 1, w[2] - 1, w[2], w[2] + 1, w[2] + MaxLate } :
            probe = [ kind |-> "window", last |-> last, min_spawn |-> w[1], max_spawn |-> w[2],
                      now |-> last + off ]
  /\ quota = 0
  /\ tasks = [n \in Networks |-> [pc |-> "read", wake |-> 0]]
  /\ data_file = players
  /\ channel_stats = EmptyDict

\* get_level_properties(xp) and get_level_properties(xp + 1)
probe_level ==
  /\ probe.kind = "input"
  /\ probe' = [ kind |-> "tier", xp |-> probe.xp, steps |-> 0,
                props |-> get_level_properties(probe.xp),
                above |-> get_level_properties(probe.xp + 1) ]
  /\ UNCHANGED << now, registered, members, channel_next_spawn, channel_pre_notice,
                  channel_notice_sent, channel_last_spawn, duck_call_schedule,
                  last_despawn_check, active_ducks, players, nextId, departed, shot_by,
                  befriended_by, natGap, lastOp, ticked, cmds, elapses, running, quota,
                  shop_item_23_cost, channel_stats, channel_stats_backup, should_restart,
                  tasks, data_file, notices >>

\* safe_xp_operation(stats, 'subtract', amount) with amount > stats['xp'], applied to
\* the XP the previous subtraction left
probe_subtract(excess) ==
  /\ probe.kind \in { "input", "xp" }
  /\ probe.steps < MaxProbes
  /\ probe' = [ kind |-> "xp", steps |-> probe.steps + 1,
                before |-> probe.xp, amount |-> probe.xp + excess,
                xp |-> safe_xp_operation(probe.xp, "subtract", probe.xp + excess) ]
  /\ UNCHANGED << now, registered, members, channel_next_spawn, channel_pre_notice,
                  channel_notice_sent, channel_last_spawn, duck_call_schedule,
                  last_despawn_check, active_ducks, players, nextId, departed, shot_by,
                  befriended_by, natGap, lastOp, ticked, cmds, elapses, running, quota,
                  shop_item_23_cost, channel_stats, channel_stats_backup, should_restart,
                  tasks, data_file, notices >>

\* schedule_channel_next_duck(network, channel, allow_immediate=False) on a channel
\* whose last spawn is more than max_spawn ago, and
\* schedule_channel_next_duck(network, channel) at a time before, in or after the
\* window of the last spawn: the due time it computes
probe_schedule ==
  /\ probe.kind \in { "clock", "window" }
  /\ \E due_time \in schedule_due_times(probe.now, probe.last, probe.min_spawn,
                                         probe.max_spawn, probe.kind = "window") :
       probe' = IF probe.kind = "clock"
                THEN [ kind |-> "due", last |-> probe.last, now |-> probe.now,
                       due_time |-> due_time ]
                ELSE [ kind |-> "due_window", last |-> probe.last, now |-> probe.now,
                       min_spawn |-> probe.min_spawn, max_spawn |-> probe.max_spawn,
                       due_time |-> due_time ]
  /\ UNCHANGED << now, registered, members, channel_next_spawn, channel_pre_notice,
                  channel_notice_sent, channel_last_spawn, duck_call_schedule,
                  last_despawn_check, active_ducks, players, nextId, departed, shot_by,
                  befriended_by, natGap, lastOp, ticked, cmds, elapses, running, quota,
                  shop_item_23_cost, channel_stats, channel_stats_backup, should_restart,
                  tasks, data_file, notices >>

NextPure ==
  \/ probe_level
  \/ probe_schedule
  \/ \E excess \in 1..MaxExcess : probe_subtract(excess)

SpecPure == InitPure /\ [][NextPure]_vars

\* ------------------------------------------------------- the network tasks
MaxBackoffs == 2

\* run_network, first loop: connect_network succeeds and the task goes on to read,
\* or it raises and the task sleeps five seconds before the next attempt
connect_network(n, ok) ==
  /\ running
  /\ ~should_restart
  /\ tasks[n].pc = "connect"
  /\ ok \/ elapses < MaxBackoffs
  /\ tasks' = [tasks EXCEPT ![n] = IF ok THEN [pc |-> "read", wake |-> 0]
                                   ELSE [pc |-> "retry", wake |-> now + 5]]
  /\ elapses' = IF ok THEN elapses ELSE elapses + 1
  /\ lastOp' = [ op |-> "connect", net |-> n, ok |-> ok ]
  /\ UNCHANGED << now, registered, members, channel_next_spawn, channel_pre_notice,
                  channel_notice_sent, channel_last_spawn, duck_call_schedule,
                  last_despawn_check, active_ducks, players, nextId, departed, shot_by,
                  befriended_by, natGap, ticked, cmds, running, probe, quota,
                  shop_item_23_cost, channel_stats, channel_stats_backup,
                  should_restart, data_file, notices >>

\* run_network, second loop: the read raises (a socket error other than EAGAIN, or
\* any other exception); the handler logs and starts its five-second sleep
run_network_error(n) ==
  /\ running
  /\ ~should_restart
  /\ tasks[n].pc = "read"
  /\ elapses < MaxBackoffs
  /\ tasks' = [tasks EXCEPT ![n] = [pc |-> "backoff", wake |-> now + 5]]
  /\ elapses' = elapses + 1
  /\ lastOp' = [ op |-> "error", net |-> n ]
  /\ UNCHANGED << now, registered, members, channel_next_spawn, channel_pre_notice,
                  channel_notice_sent, channel_last_spawn, duck_call_schedule,
                  last_despawn_check, active_ducks, players, nextId, departed, shot_by,
                  befriended_by, natGap, ticked, cmds, running, probe, quota,
                  shop_item_23_cost, channel_stats, channel_stats_backup,
                  should_restart, data_file, notices >>

\* the sleep of a task is over: after a failed connect the first loop tries again;
\* after an error on the established connection `break` leaves the second loop,
\* the connection is closed and run_network returns
backoff_over(n) ==
  /\ running
  /\ tasks[n].pc \in { "retry", "backoff" }
  /\ now' = Max(now, tasks[n].wake)
  /\ ticked' = IF now < tasks[n].wake THEN {} ELSE ticked
  /\ tasks' = [tasks EXCEPT ![n] = [pc |-> IF tasks[n].pc = "retry" THEN "connect"
                                           ELSE "done",
                                    wake |-> 0]]
  /\ lastOp' = [ op |-> "woke", net |-> n ]
  /\ UNCHANGED << registered, members, channel_next_spawn, channel_pre_notice,
                  channel_notice_sent, channel_last_spawn, duck_call_schedule,
                  last_despawn_check, active_ducks, players, nextId, departed, shot_by,
                  befriended_by, natGap, cmds, elapses, running, probe, quota,
                  shop_item_23_cost, channel_stats, channel_stats_backup,
                  should_restart, data_file, notices >>

\* run: asyncio.wait reports a finished task; the loop breaks, every other task is
\* cancelled, and with should_restart unset run returns, which ends asyncio.run
run ==
  /\ running
  /\ ~should_restart
  /\ \E n \in Networks : tasks[n].pc = "done"
  /\ tasks' = [n \in Networks |-> IF tasks[n].pc = "done" THEN tasks[n]
                                  ELSE [pc |-> "cancelled", wake |-> 0]]
  /\ running' = FALSE
  /\ lastOp' = [ op |-> "run" ]
  /\ UNCHANGED << now, registered, members, channel_next_spawn, channel_pre_notice,
                  channel_notice_sent, channel_last_spawn, duck_call_schedule,
                  last_despawn_check, active_ducks, players, nextId, departed, shot_by,
                  befriended_by, natGap, ticked, cmds, elapses, probe, quota,
                  shop_item_23_cost, channel_stats, channel_stats_backup,
                  should_restart, data_file, notices >>

\* the owner's !restart on network n: QUIT is sent everywhere, the flag is set and
\* os._exit(0) ends the process
handle_restart(n) ==
  /\ running
  /\ registered[n]
  /\ tasks[n].pc = "read"
  /\ should_restart' = TRUE
  /\ running' = FALSE
  /\ lastOp' = [ op |-> "restart", net |-> n ]
  /\ UNCHANGED << now, registered, members, channel_next_spawn, channel_pre_notice,
                  channel_notice_sent, channel_last_spawn, duck_call_schedule,
                  last_despawn_check, active_ducks, players, nextId, departed, shot_by,
                  befriended_by, natGap, ticked, cmds, elapses, probe, quota,
                  shop_item_23_cost, channel_stats, channel_stats_backup, tasks,
                  data_file, notices >>

\* the bot right after run() created one task per network, nothing connected yet
InitNet ==
  /\ InitGame
  /\ players = EmptyDict
  /\ probe = NoProbe
  /\ quota = 0
  /\ channel_stats = EmptyDict
  /\ tasks = [n \in Networks |-> [pc |-> "connect", wake |-> 0]]
  /\ data_file = players

NextNet ==
  \/ \E n \in Networks, ok \in BOOLEAN : connect_network(n, ok)
  \/ \E n \in Networks : run_network_error(n)
  \/ \E n \in Networks : backoff_over(n)
  \/ run
  \/ \E n \in Networks : handle_restart(n)
  \/ \E n \in Networks : \E due \in first_dues(n) :
       tasks[n].pc = "read" /\ complete_registration(n, due)
  \/ \E n \in Networks : tasks[n].pc = "read" /\ Tick(n)
  \/ \E n \in Networks : tasks[n].pc = "read" /\ IdleTick(n)
  \/ Second

SpecNet == InitNet /\ [][NextNet]_vars

\* ------------------------------------------------------------------ claims
\* C1: in every channel the time between two consecutive natural spawns never
\* exceeds max_spawn.  natGap holds, per channel, the time since the previous natural
\* spawn measured when run_network performs the next one.
C1_GapWithinMaxSpawn ==
  \A key \in DOMAIN natGap : natGap[key] <= get_network_max_spawn(key[1])

\* the queue of a channel, empty when the channel has no entry
queue_of(ad, key) == DictGet(ad, key, << >>)

\* C2: the number of live ducks of a channel never exceeds its network's max_ducks,
\* whatever spawns them; no step adds a duck to a channel that holds max_ducks ducks,
\* and an admin spawn attempted in such a channel leaves every queue as it was.
C2_WithinCap(ad) ==
  \A key \in DOMAIN ad : Len(ad[key]) <= get_network_max_ducks(key[1])

C2_PopulationWithinCap ==
  [][ /\ C2_WithinCap(active_ducks')
      /\ \A key \in Keys :
           duck_count(active_ducks, key) >= get_network_max_ducks(key[1])
             => /\ SeqIds(queue_of(active_ducks', key)) \subseteq
                     SeqIds(queue_of(active_ducks, key))
                /\ (lastOp'.op \in { "spawnduck", "spawngold" } /\ lastOp'.net = key[1])
                     => queue_of(active_ducks', key) = queue_of(active_ducks, key)
    ]_vars

\* C2 witness: a !spawngold was refused in a channel holding max_ducks ducks
C2_SpawnRefusedAtCap ==
  /\ lastOp.op = "spawngold"
  /\ lastOp.spawned = 0
  /\ duck_count(active_ducks, PlayedKey) = get_network_max_ducks(Played)

\* sum of a counter over the player table
RECURSIVE total_of(_, _, _)
total_of(pl, keys, field) ==
  IF keys = {} THEN 0
  ELSE LET k == CHOOSE x \in keys : TRUE IN
       pl[k][field] + total_of(pl, keys \ {k}, field)

\* ids of the ducks now in some queue
live_ids(ad) == UNION { SeqIds(ad[key]) : key \in DOMAIN ad }

\* C3: every duck leaves its queue at most once and is credited to at most one
\* player, never both as shot and as befriended; each ducks_shot / befriended_ducks
\* increment belongs to one departed duck; a kill removes exactly the head.
C3_Credits(ad, pl, dep, shot, bef) ==
  /\ \A id \in DOMAIN dep : dep[id] <= 1 /\ id \notin live_ids(ad)
  /\ \A id \in DOMAIN shot : Cardinality(shot[id]) = 1 /\ id \in DOMAIN dep
  /\ \A id \in DOMAIN bef : Cardinality(bef[id]) = 1 /\ id \in DOMAIN dep
  /\ (DOMAIN shot) \cap (DOMAIN bef) = {}
  /\ total_of(pl, DOMAIN pl, "ducks_shot") = Cardinality(DOMAIN shot)
  /\ total_of(pl, DOMAIN pl, "befriended_ducks") = Cardinality(DOMAIN bef)

C3_OneDepartureOneCredit ==
  [][ /\ C3_Credits(active_ducks', players', departed', shot_by', befriended_by')
      /\ (lastOp'.op \in { "bang", "bef" } /\ lastOp'.killed)
           => LET key == get_network_channel_key(lastOp'.net, TheChannel) IN
              /\ queue_of(active_ducks, key) # << >>
              /\ Head(queue_of(active_ducks, key)).id = lastOp'.duck
              /\ queue_of(active_ducks', key) = Tail(queue_of(active_ducks, key))
              /\ \A other \in Keys \ { key } :
                   queue_of(active_ducks', other) = queue_of(active_ducks, other)
    ]_vars

\* C3 witness: one player shot a duck dead and the other player's befriend, coming
\* next, found the channel empty
C3_ShotThenBefriendFindsNone ==
  /\ lastOp.op = "bef"
  /\ lastOp.outcome = "nobody"
  /\ \E id \in DOMAIN shot_by : lastOp.user \notin shot_by[id]

\* C4: every player-channel record has XP >= 0
C4_XpNeverNegative ==
  \A k \in DOMAIN players : players[k].xp >= 0

\* the caps of a record's current XP tier with its upgrade levels
tier_magazine_capacity(st) ==
  get_level_properties(st.xp).magazine_capacity + st.mag_upgrade_level
tier_magazines_max(st) ==
  get_level_properties(st.xp).magazines_max + st.mag_capacity_level

\* C5: after each command a player's ammo is at most the magazine capacity of the
\* player's current XP tier plus the magazine upgrade level
C5_AmmoWithinTierCapacity ==
  \A k \in DOMAIN players : players[k].ammo <= tier_magazine_capacity(players[k])

\* C6: after each command a player's spare magazines are at most the magazines_max
\* of the player's current XP tier plus the magazine-count upgrade level
C6_MagazinesWithinTierMax ==
  \A k \in DOMAIN players : players[k].magazines <= tier_magazines_max(players[k])

\* the lookup returned a row of the table
C7_Total(props) ==
  \E i \in DOMAIN thresholds :
    thresholds[i][1] = props.min_xp /\ thresholds[i][2] = props.level

\* C7: for every integer XP x the tier lookup returns a tier, the level it returns
\* does not decrease when x grows, and the min_xp of the returned tier is <= x for
\* every x from the lowest threshold (-5) up; below the lowest threshold the lookup
\* returns the lowest tier.
C7_TierLookup ==
  probe.kind = "tier" =>
    /\ C7_Total(probe.props)
    /\ C7_Total(probe.above)
    /\ probe.props.level <= probe.above.level
    /\ probe.xp >= thresholds[1][1] => probe.props.min_xp <= probe.xp
    /\ probe.xp < thresholds[1][1] =>
         probe.props.min_xp = thresholds[1][1] /\ probe.props.level = thresholds[1][2]

\* C7 as stated: the min_xp of the returned tier is <= x for every integer x
C7_ThresholdNeverAbove ==
  probe.kind = "tier" =>
    /\ C7_Total(probe.props)
    /\ probe.props.level <= probe.above.level
    /\ probe.props.min_xp <= probe.xp

\* C7 witness: the lookup was made for an XP below the lowest threshold
C7_BelowLowestTier ==
  /\ probe.kind = "tier"
  /\ probe.xp < thresholds[1][1]
  /\ probe.props.level = 0

\* C8: whatever the starting XP, each subtraction of an amount greater than the
\* current XP leaves the XP at exactly 0, never below
C8_OverdrawnLeavesZero ==
  probe.kind = "xp" => (probe.amount > probe.before => probe.xp = 0)

\* C8 witness: a second overdrawing subtraction in a row
C8_SubtractedTwice ==
  /\ probe.kind = "xp"
  /\ probe.steps = 2
  /\ probe.before = 0
  /\ probe.amount > 0
  /\ probe.xp = 0

\* a queue lists its ducks in the order they were spawned
oldest_first(q) ==
  \A i, j \in DOMAIN q :
    i < j => q[i].spawn_time <= q[j].spawn_time /\ q[i].id < q[j].id

\* C9: every queue is ordered oldest-first; a !bang or !bef changes at most the head
\* of the channel's queue (it stays, it stays with other health and flags, or it
\* leaves), every duck behind the head is left as it was, and a departure by kill,
\* completed befriend or hostile flee removes exactly the head.
C9_HeadOnly ==
  [][ /\ \A key \in DOMAIN active_ducks' : oldest_first(active_ducks'[key])
      /\ lastOp'.op \in { "bang", "bef" } =>
           LET key == get_network_channel_key(lastOp'.net, TheChannel)
               q == queue_of(active_ducks, key)
               r == queue_of(active_ducks', key)
               left == departed' # departed
           IN
           /\ \A other \in Keys \ { key } :
                queue_of(active_ducks', other) = queue_of(active_ducks, other)
           /\ left => /\ q # << >>
                       /\ r = Tail(q)
                       /\ lastOp'.duck = Head(q).id
                       /\ departed' = count_departures(departed, { Head(q).id })
           /\ ~left => \/ r = q
                        \/ /\ q # << >>
                           /\ Len(r) = Len(q)
                           /\ Tail(r) = Tail(q)
                           /\ Head(r).id = Head(q).id
                           /\ Head(r).spawn_time = Head(q).spawn_time
                           /\ lastOp'.duck = Head(q).id
    ]_vars

\* C9 witness: a kill took the head of a queue of two ducks and left the younger one
C9_KillLeavesYounger ==
  /\ lastOp.op \in { "bang", "bef" }
  /\ lastOp.killed
  /\ DictHas(active_ducks, PlayedKey)
  /\ Len(active_ducks[PlayedKey]) = 1
  /\ Head(active_ducks[PlayedKey]).id > lastOp.duck

\* the shooter's record as handle_bang finds it, and the XP of a kill of the last
\* duck shot at
C10_Before(pl) ==
  get_channel_stats(pl, lastOp'.user, get_network_channel_key(lastOp'.net, TheChannel))
C10_After(pl) ==
  pl[<<lastOp'.user, get_network_channel_key(lastOp'.net, TheChannel)>>]
C10_KillXp(st) ==
  (IF lastOp'.golden THEN 50 ELSE default_xp)
    + (IF st.clover_until > now THEN st.clover_bonus ELSE 0)

\* C10: a shot that kills a duck and drops no loot raises the shooter's XP by exactly
\* the base XP (regular or golden) plus the clover bonus if a clover is active; when
\* the kill drops loot the XP rises by at least that; a hit that does not kill leaves
\* XP unchanged; with ammo 1 and no clover, one killing shot on a regular duck that
\* drops no loot leaves ammo 0 and XP raised by exactly the base XP.
C10_KillXpWithoutLoot ==
  [][ (lastOp'.op = "bang" /\ lastOp'.outcome = "hit") =>
        LET before == C10_Before(players)
            after == C10_After(players')
        IN
        /\ (lastOp'.killed /\ lastOp'.loot = "none")
             => after.xp = before.xp + C10_KillXp(before)
        /\ (lastOp'.killed /\ lastOp'.loot # "none")
             => after.xp >= before.xp + C10_KillXp(before)
        /\ ~lastOp'.killed => after.xp = before.xp
        /\ ( /\ lastOp'.killed /\ lastOp'.loot = "none" /\ ~lastOp'.golden
             /\ before.ammo = 1 /\ ~(before.clover_until > now) )
             => after.ammo = 0 /\ after.xp = before.xp + default_xp
    ]_vars

\* C10 as stated: a killing shot raises XP by the base XP and the clover bonus and by
\* nothing else
C10_KillXpAndNothingElse ==
  [][ (lastOp'.op = "bang" /\ lastOp'.outcome = "hit") =>
        LET before == C10_Before(players)
            after == C10_After(players')
        IN
        /\ lastOp'.killed => after.xp = before.xp + C10_KillXp(before)
        /\ ~lastOp'.killed => after.xp = before.xp
        /\ ( /\ lastOp'.killed /\ ~lastOp'.golden
             /\ before.ammo = 1 /\ ~(before.clover_until > now) )
             => after.ammo = 0 /\ after.xp = before.xp + default_xp
    ]_vars

\* C10 witness: a kill under an active clover that dropped no loot
C10_CloverKill ==
  /\ lastOp.op = "bang"
  /\ lastOp.killed
  /\ lastOp.loot = "none"
  /\ players[<<lastOp.user, PlayedKey>>].clover_until > now
  /\ players[<<lastOp.user, PlayedKey>>].clover_bonus > 0

\* C11: a hit with damage d on a head duck of health h leaves the duck at the head
\* with health h-d, not killed, when h-d > 0, and removes it, killed, exactly when
\* h-d <= 0; a duck enters a queue with health 5 when golden and 1 otherwise.
C11_HitResolves ==
  [][ /\ \A key \in DOMAIN active_ducks' : \A i \in DOMAIN active_ducks'[key] :
           active_ducks'[key][i].id \notin live_ids(active_ducks)
             => active_ducks'[key][i].health = (IF active_ducks'[key][i].golden THEN 5 ELSE 1)
      /\ (lastOp'.op = "bang" /\ lastOp'.outcome = "hit") =>
           LET key == get_network_channel_key(lastOp'.net, TheChannel)
               q == queue_of(active_ducks, key)
               r == queue_of(active_ducks', key)
               before == C10_Before(players)
               d == IF Head(q).golden /\ (before.explosive_shots > 0 \/ before.ap_shots > 0)
                    THEN 2 ELSE 1
           IN
           /\ q # << >>
           /\ Head(q).health - d > 0 =>
                /\ ~lastOp'.killed
                /\ Len(r) = Len(q)
                /\ Tail(r) = Tail(q)
                /\ Head(r).id = Head(q).id
                /\ Head(r).health = Head(q).health - d
           /\ Head(q).health - d <= 0 =>
                /\ lastOp'.killed
                /\ r = Tail(q)
    ]_vars

\* C11 witness: u2's third armour-piercing hit in a row killed the golden duck
\* (health 5, 3, 1, dead)
C11_GoldenDeadOnThirdHit ==
  /\ lastOp.op = "bang"
  /\ lastOp.user = "u2"
  /\ lastOp.killed
  /\ lastOp.golden
  /\ players[<<"u2", PlayedKey>>].shots_fired = 3
  /\ players[<<"u2", PlayedKey>>].ap_shots = 17

\* the per-record fields get_channel_stats derives again from XP and the upgrade
\* levels at every fetch
DerivedFields ==
  { "magazine_capacity", "magazines_max", "miss_penalty", "wild_penalty", "accident_penalty" }

C12_Buyer == <<lastOp'.user, get_network_channel_key(lastOp'.net, TheChannel)>>

C12_Poor == lastOp'.op = "shop" /\ lastOp'.outcome = "poor"

\* the buyer's XP is below the price: the listed price, or for the two upgrades
\* min(1000, 200 * (level + 1))
C12_Short ==
  LET st == get_channel_stats(players, C12_Buyer[1], C12_Buyer[2])
      item_id == lastOp'.item
  IN st.xp < (IF item_id = 22 THEN Min(1000, 200 * (st.mag_upgrade_level + 1))
              ELSE IF item_id = 23 THEN Min(1000, 200 * (st.mag_capacity_level + 1))
              ELSE item_cost(item_id))

C12_SchedulesKept ==
  UNCHANGED << channel_next_spawn, channel_pre_notice, channel_notice_sent,
               channel_last_spawn, duck_call_schedule, active_ducks, shop_item_23_cost,
               channel_stats, channel_stats_backup, should_restart, tasks >>

\* C12 (as stated): a purchase attempted with XP below the item's cost leaves the
\* buyer's record, every other record and the schedules unchanged, and the reply
\* is the insufficient-funds reply exactly when the XP is below the cost.
C12_PoorChangesNothing ==
  [][ /\ C12_Poor => (players' = players /\ C12_SchedulesKept)
      /\ lastOp'.op = "shop" =>
           (lastOp'.outcome = "poor" <=> C12_Short)
    ]_vars

\* C12 (amended): such a purchase changes nothing but what the fetch of the buyer's
\* record changes: a buyer without a record gets the default record with XP 0, an
\* existing record keeps every field except the derived ones; every other record
\* and the schedules are unchanged, and the reply is the insufficient-funds reply
\* exactly when the XP is below the cost.
C12_PoorOnlyFetches ==
  [][ /\ C12_Poor =>
           /\ DOMAIN players' = DOMAIN players \cup { C12_Buyer }
           /\ \A k \in DOMAIN players : k # C12_Buyer => players'[k] = players[k]
           /\ C12_Buyer \in DOMAIN players =>
                \A f \in DOMAIN players[C12_Buyer] \ DerivedFields :
                   players'[C12_Buyer][f] = players[C12_Buyer][f]
           /\ C12_Buyer \notin DOMAIN players =>
                /\ players'[C12_Buyer].xp = 0
                /\ \A f \in DOMAIN default_stats \ (DerivedFields \cup { "ammo", "magazines" }) :
                     players'[C12_Buyer][f] = default_stats[f]
           /\ C12_SchedulesKept
      /\ lastOp'.op = "shop" =>
           (lastOp'.outcome = "poor" <=> C12_Short)
    ]_vars

\* C12 witness: u2, who paid for an upgrade before, is turned away from the next
\* one with the record in hand
C12_PoorAfterUpgrade ==
  /\ lastOp.op = "shop"
  /\ lastOp.outcome = "poor"
  /\ lastOp.user = "u2"
  /\ lastOp.item = 22
  /\ players[<<"u2", PlayedKey>>].mag_capacity_level = 1
  /\ players[<<"u2", PlayedKey>>].xp = LoadedXp - 200

\* C13: whenever a purchase by a buyer with sufficient XP is rejected (modifier
\* already active, item at its cap, upgrade at level 5, target missing, or the item
\* would have no effect), the buyer's XP after the command equals the XP before it.
C13_RejectedKeepsXp ==
  [][ (lastOp'.op = "shop" /\ lastOp'.outcome \in { "active", "refused" }) =>
        players'[C12_Buyer].xp = players[C12_Buyer].xp
    ]_vars

C15_DeletedOnlyAfterBackup ==
  [][ /\ \A k \in DOMAIN channel_stats \ DOMAIN channel_stats' :
           /\ lastOp'.op = "clear"
           /\ \E b \in DOMAIN channel_stats_backup' :
                /\ k \in DOMAIN channel_stats_backup'[b]
                /\ channel_stats_backup'[b][k] = channel_stats[k]
      /\ \A k \in DOMAIN players \ DOMAIN players' :
           /\ lastOp'.op = "clear"
           /\ \E snapshot \in file_backups :
                k \in DOMAIN snapshot /\ snapshot[k] = players[k]
    ]_vars

\* C16 (as stated): when the channel is overdue (now > last + max_spawn) and the
\* caller suppresses immediacy, the due time d satisfies now+10 <= d < now+30 and
\* is never equal to now.
C16_DueWithinHalfOpenWindow ==
  probe.kind = "due" =>
    /\ probe.now + 10 <= probe.due_time
    /\ probe.due_time < probe.now + 30
    /\ probe.due_time # probe.now

\* C16 (amended): for a channel with a recorded last spawn (last # 0) that is
\* overdue, with immediacy suppressed, now+10 <= d <= now+30; without a recorded
\* spawn (last = 0) now+min_spawn <= d <= now+max_spawn; d is never equal to now.
C16_DueWithinClosedWindow ==
  probe.kind = "due" =>
    /\ probe.last # 0 =>
         (probe.now + 10 <= probe.due_time /\ probe.due_time <= probe.now + 30)
    /\ probe.last = 0 =>
         (probe.now + 600 <= probe.due_time /\ probe.due_time <= probe.now + 1800)
    /\ probe.due_time # probe.now

\* C16 witness: last spawn at t0 = 1000, probe at t0 + 1800 + 40 with min_spawn 600
\* and max_spawn 1800: the due time is 20 s after the probe
C16_ProbedWhenOverdue ==
  /\ probe.kind = "due"
  /\ probe.last = 1000
  /\ probe.now = 1000 + 1800 + MaxLate
  /\ probe.due_time = probe.now + 20

C17_Key == get_network_channel_key(lastOp'.net, TheChannel)

C17_RegularScheduleKept ==
  UNCHANGED << channel_next_spawn, channel_pre_notice, channel_notice_sent, channel_last_spawn,
             should_restart, tasks >>

\* the regular spawn of the channel is due at `now`; its pre-notice is due
C17_RegularDue ==
  /\ C17_Key \in DOMAIN channel_next_spawn
  /\ channel_next_spawn[C17_Key] \notin { None, 0 }
  /\ now >= channel_next_spawn[C17_Key]

C17_NoticeDue ==
  /\ C17_Key \in DOMAIN channel_next_spawn
  /\ C17_Key \in DOMAIN channel_pre_notice
  /\ ~DictGet(channel_notice_sent, C17_Key, FALSE)
  /\ now >= channel_pre_notice[C17_Key]

\* a burst duck entered the channel in this pass of the loop
C17_BurstSpawned ==
  /\ lastOp'.op = "tick"
  /\ \E i \in DOMAIN queue_of(active_ducks', C17_Key) :
       /\ queue_of(active_ducks', C17_Key)[i].id \notin live_ids(active_ducks)
       /\ ~C17_RegularDue

\* C17: a duck-call purchase adds N (1..5) extra due times at now+60, ..., now+60N
\* for the channel, and neither the purchase nor the burst and manual spawns that
\* follow change the channel's regular schedule (next_spawn_due, pre_notice_due,
\* pre_notice_sent, last_spawn).
C17_DuckCallLeavesSchedule ==
  [][ /\ (lastOp'.op = "shop" /\ lastOp'.item = 24 /\ lastOp'.outcome = "bought") =>
           /\ \E N \in 1..5 :
                duck_call_schedule'[C17_Key] =
                  DictGet(duck_call_schedule, C17_Key, << >>) \o [ i \in 1..N |-> now + 60 * i ]
           /\ C17_RegularScheduleKept
      /\ lastOp'.op \in { "spawnduck", "spawngold" } =>
           (C17_RegularScheduleKept /\ UNCHANGED duck_call_schedule)
      /\ C17_BurstSpawned =>
           /\ UNCHANGED << channel_next_spawn, channel_pre_notice, channel_last_spawn, should_restart,
             tasks >>
           /\ ~C17_NoticeDue => UNCHANGED channel_notice_sent
    ]_vars

\* C17 witness: the duck call bought at t = 1 brought its first duck at t = 61, in
\* a pass that had no regular spawn to make; four more calls wait
C17_BurstDuckArrived ==
  /\ lastOp.op = "tick"
  /\ now = 61
  /\ duck_count(active_ducks, PlayedKey) = 1
  /\ DictHas(duck_call_schedule, PlayedKey)
  /\ duck_call_schedule[PlayedKey] = << 121, 181, 241, 301 >>
  /\ ~DictHas(channel_last_spawn, PlayedKey)

\* ---------------------------------------------------------------------------
\* Confiscations after a departure
\* ---------------------------------------------------------------------------

\* the channels one of whose ducks left its queue in this step
C18_LeftKeys ==
  { key \in DOMAIN active_ducks :
      /\ departed' # departed
      /\ SeqIds(active_ducks[key]) \ SeqIds(queue_of(active_ducks', key)) # {} }

\* C18: whenever a duck leaves a channel (kill, completed befriend, hostile flee
\* or despawn), right after that step no player record of that channel is
\* confiscated: neither the in-memory record nor the stored row a later command
\* of the relational store reads.
C18_NoConfiscationAfterDeparture ==
  [][ \A key \in C18_LeftKeys :
        /\ \A k \in DOMAIN players' : k[2] = key => ~players'[k].confiscated
        /\ \A k \in DOMAIN channel_stats' : k[2] = key => ~channel_stats'[k].confiscated
    ]_vars

\* ---------------------------------------------------------------------------
\* The two stores seen by the next command
\* ---------------------------------------------------------------------------

\* C19: after every sequence of commands and ticks, a player who has a record in
\* both stores is read with the same XP, ammunition and confiscation by the next
\* command under the file-backed store (the in-memory record as get_channel_stats
\* fetches it) and under the relational store (the row as stored).
C19_StoresReadAlike ==
  \A k \in DOMAIN players \cap DOMAIN channel_stats :
    /\ fetch_players(players, k[1], k[2])[k].xp = channel_stats[k].xp
    /\ fetch_players(players, k[1], k[2])[k].ammo = channel_stats[k].ammo
    /\ fetch_players(players, k[1], k[2])[k].confiscated = channel_stats[k].confiscated

\* ---------------------------------------------------------------------------
\* Transport failures
\* ---------------------------------------------------------------------------

\* C20: no transport failure ever ends a network's task or the process: unless the
\* owner asked for a restart, the process is running and no network's task has
\* returned or been cancelled.
C20_TasksSurviveErrors ==
  \/ should_restart
  \/ /\ running
     /\ \A n \in Networks : tasks[n].pc \notin { "done", "cancelled" }

\* ---------------------------------------------------------------------------
\* Commands on any population
\* ---------------------------------------------------------------------------

\* C21: in every reachable state of the ducks and the records, a !bang or a !bef
\* completes without an unhandled error: the bot is still running after it.
C21_ShootAndBefriendComplete ==
  [][ lastOp'.op \in { "bang", "bef" } => running' ]_vars

\* ---------------------------------------------------------------------------
\* Persistence before the handler returns
\* ---------------------------------------------------------------------------

\* C22: a !bang, !bef, !reload or !shop that changes the record of the player who
\* sent it (beyond what fetching the record does) has written the changed record to
\* the data file when it returns.
C22_ChangedRecordSaved ==
  [][ lastOp'.op \in { "bang", "bef", "reload", "shop" } =>
        LET key == get_network_channel_key(lastOp'.net, TheChannel)
            me == <<lastOp'.user, key>>
        IN players'[me] # get_channel_stats(players, lastOp'.user, key) =>
             /\ DictHas(data_file', me)
             /\ data_file'[me] = players'[me]
    ]_vars

\* ---------------------------------------------------------------------------
\* The round of a jammed shot
\* ---------------------------------------------------------------------------

\* the shooter of the !bang just handled, and the record the handler fetched
C23_Shooter == <<lastOp'.user, get_network_channel_key(lastOp'.net, TheChannel)>>
C23_Fetched == get_channel_stats(players, lastOp'.user, C23_Shooter[2])

C24_Sender == <<lastOp'.user, get_network_channel_key(lastOp'.net, TheChannel)>>
C24_Fetched == get_channel_stats(players, lastOp'.user, C24_Sender[2])

\* C24: with a duck in the channel, a !bef by a player whose gun is confiscated, or
\* who is soaked or egged, is rejected before the duck is examined: every queue and
\* the player's XP and counters are as they were.
C24_UnfitBefriendRejected ==
  [][ ( /\ lastOp'.op = "bef"
        /\ queue_of(active_ducks, C24_Sender[2]) # << >>
        /\ \/ C24_Fetched.confiscated
           \/ C24_Fetched.soaked_until > now
           \/ C24_Fetched.egged ) =>
        /\ active_ducks' = active_ducks
        /\ players'[C24_Sender].xp = C24_Fetched.xp
        /\ players'[C24_Sender].misses = C24_Fetched.misses
        /\ players'[C24_Sender].befriended_ducks = C24_Fetched.befriended_ducks
        /\ players'[C24_Sender].bread_uses = C24_Fetched.bread_uses
    ]_vars

\* the first of the five conditions, in the order confiscated, jammed, out of
\* ammunition, soaked, egged, that the record of the player fails
C25_FirstFailing(st) ==
  CASE st.confiscated -> "confiscated"
    [] ~st.confiscated /\ st.jammed -> "jammed"
    [] ~st.confiscated /\ ~st.jammed /\ st.ammo <= 0 -> "empty"
    [] ~st.confiscated /\ ~st.jammed /\ st.ammo > 0 /\ st.soaked_until > now -> "soaked"
    [] OTHER -> IF st.egged THEN "egged" ELSE "none"

\* C25: a !bang by a player who is confiscated, jammed, out of ammunition, soaked
\* or egged is rejected at the first of these checks that fails, in this order,
\* before the duck is looked up and before any draw: the handler completes even
\* when the channel's queue is empty, the queues and the other players' records are
\* as they were, and the player's own XP, ammunition, flags and counters (every
\* field that is not recomputed from the tier on each fetch) are unchanged.
C25_UnfitShotRejected ==
  [][ (lastOp'.op = "bang" /\ DictHas(players, C24_Sender)
       /\ C25_FirstFailing(players[C24_Sender]) # "none") =>
        /\ lastOp'.outcome = "rejected"
        /\ lastOp'.refusal = C25_FirstFailing(players[C24_Sender])
        /\ running'
        /\ active_ducks' = active_ducks
        /\ departed' = departed
        /\ DOMAIN players' = DOMAIN players
        /\ \A k \in DOMAIN players \ { C24_Sender } : players'[k] = players[k]
        /\ \A f \in DOMAIN players[C24_Sender] \ DerivedFields :
             players'[C24_Sender][f] = players[C24_Sender][f]
    ]_vars

\* a soaked and egged player, gun in order, was turned away as soaked with a duck
\* in the channel
C25_SoakedBeforeEgged ==
  /\ lastOp.op = "bang"
  /\ lastOp.outcome = "rejected"
  /\ lastOp.refusal = "soaked"
  /\ players[<<lastOp.user, PlayedKey>>].egged
  /\ queue_of(active_ducks, PlayedKey) # << >>

\* ---------------------------------------------------------------------------
\* Reaction times
\* ---------------------------------------------------------------------------

\* C26: a player's best_time and total_reaction_time change only in a !bang that
\* kills a duck or a !bef that completes a befriending; a hit that leaves the duck
\* alive leaves both as they were.
C26_ReactionOnlyOnKill ==
  [][ \A k \in DOMAIN players' :
        ( \/ players'[k].best_time # DictGet(players, k, default_stats).best_time
          \/ players'[k].total_reaction_time
               # DictGet(players, k, default_stats).total_reaction_time ) =>
          /\ lastOp'.op \in { "bang", "bef" }
          /\ lastOp'.killed
          /\ k = <<lastOp'.user, get_network_channel_key(lastOp'.net, TheChannel)>>
    ]_vars

\* ---------------------------------------------------------------------------
\* Promotion and demotion
\* ---------------------------------------------------------------------------

\* C27: whenever a !bang, !bef or !shop moves the sender's XP into another tier of
\* the table, ammunition and magazines are adjusted to the new tier: on promotion
\* a player who held the old maximum of magazines holds the new, larger one; on
\* demotion ammunition and magazines are not above the new caps; and a !bang or
\* !bef that leaves the tier (and drops no loot) leaves the magazines alone.
C27_TierChangeAdjusts ==
  [][ (lastOp'.op \in { "bang", "bef", "shop" } /\ running') =>
        \A old \in { C24_Fetched } : \A new \in { players'[C24_Sender] } :
        \A before \in { get_level_properties(old.xp) } :
        \A after \in { get_level_properties(new.xp) } :
        \A old_caps \in { level_caps(old, before) } : \A new_caps \in { level_caps(new, after) } :
          /\ ( /\ lastOp'.op \in { "bang", "bef" }
               /\ lastOp'.loot = "none"
               /\ after.level > before.level
               /\ old.magazines >= old_caps.mags_max
               /\ new_caps.mags_max > old_caps.mags_max ) =>
               new.magazines = new_caps.mags_max
          /\ after.level < before.level =>
               /\ new.ammo <= new_caps.mag_cap
               /\ new.magazines <= new_caps.mags_max
          /\ ( /\ lastOp'.op \in { "bang", "bef" }
               /\ lastOp'.loot = "none"
               /\ after.level = before.level ) =>
               new.magazines = old.magazines
    ]_vars

\* ---------------------------------------------------------------------------
\* Damage of a hit
\* ---------------------------------------------------------------------------

\* C28: a hit takes 2 from the duck's health exactly when the duck is golden and the
\* shooter holds an explosive or armour-piercing charge, and then one charge of one
\* kind is used up; every other hit takes 1 and leaves both kinds of charge alone
\* (loot that refills a kind apart).
C28_DamageAndCharges ==
  [][ (lastOp'.op = "bang" /\ lastOp'.outcome = "hit") =>
        \A st \in { C23_Fetched } : \A new \in { players'[C23_Shooter] } :
        \A duck \in { Head(queue_of(active_ducks, C23_Shooter[2])) } :
        \A damage \in { IF duck.golden /\ (st.ap_shots > 0 \/ st.explosive_shots > 0)
                        THEN 2 ELSE 1 } :
          /\ lastOp'.killed <=> duck.health <= damage
          /\ ~lastOp'.killed =>
               /\ Head(queue_of(active_ducks', C23_Shooter[2])).id = duck.id
               /\ Head(queue_of(active_ducks', C23_Shooter[2])).health = duck.health - damage
          /\ lastOp'.loot \notin { "ap_ammo", "explosive_ammo" } =>
               IF damage = 2
               THEN \/ /\ new.explosive_shots = st.explosive_shots - 1
                       /\ new.ap_shots = st.ap_shots
                    \/ /\ new.ap_shots = st.ap_shots - 1
                       /\ new.explosive_shots = st.explosive_shots
               ELSE /\ new.ap_shots = st.ap_shots
                    /\ new.explosive_shots = st.explosive_shots
    ]_vars

\* (a golden duck brought from 5 to 1 by one explosive and one armour-piercing hit)
C28_TwoChargesSpent ==
  /\ lastOp.op = "bang"
  /\ lastOp.outcome = "hit"
  /\ lastOp.golden
  /\ ~lastOp.killed
  /\ \E k \in DOMAIN active_ducks : active_ducks[k] # << >> /\ Head(active_ducks[k]).health = 1
  /\ \E k \in DOMAIN players : k[1] = lastOp.user /\ players[k].ap_shots = 0
                               /\ players[k].explosive_shots = 0 /\ players[k].shots_fired = 2

\* ---------------------------------------------------------------------------
\* Safety lock
\* ---------------------------------------------------------------------------

\* C29: with no duck in the channel, a !bang by a player fit to shoot whose safety
\* lock is active with uses left takes one use and nothing else: no victim is
\* drawn, the lock ends when the uses reach 0, every other stored field of the
\* record, the other records and the queues are as they were; and the no-duck
\* !bang after the one that used the lock up is a wild fire, with its penalty and
\* the confiscation.
C29_LockTakesOneUse ==
  [][ ( /\ lastOp'.op = "bang"
        /\ DictHas(players, C24_Sender)
        /\ C25_FirstFailing(players[C24_Sender]) = "none"
        /\ ~DictHas(active_ducks, C24_Sender[2]) ) =>
        \A old \in { players[C24_Sender] } : \A new \in { players'[C24_Sender] } :
          /\ (old.trigger_lock_until > now /\ old.trigger_lock_uses > 0) =>
               /\ lastOp'.outcome = "locked"
               /\ lastOp'.victim = NoVictim
               /\ new.trigger_lock_uses = old.trigger_lock_uses - 1
               /\ new.trigger_lock_until
                    = (IF new.trigger_lock_uses = 0 THEN 0 ELSE old.trigger_lock_until)
               /\ \A f \in DOMAIN old \ (DerivedFields \cup { "trigger_lock_uses", "trigger_lock_until" }) :
                    new[f] = old[f]
               /\ \A k \in DOMAIN players \ { C24_Sender } : players'[k] = players[k]
               /\ DOMAIN players' = DOMAIN players
               /\ active_ducks' = active_ducks
          /\ ( /\ lastOp.op = "bang"
               /\ lastOp.outcome = "locked"
               /\ lastOp.user = lastOp'.user
               /\ old.trigger_lock_uses = 0 ) =>
               /\ old.trigger_lock_until = 0
               /\ lastOp'.outcome = "wildfire"
               /\ new.confiscated
               /\ new.wild_fires = old.wild_fires + 1
               /\ new.xp <= old.xp - 3
    ]_vars

\* (the last use of a lock was taken: the lock is off, the gun is kept, the XP are whole)
C29_LockUsedUp ==
  /\ lastOp.op = "bang"
  /\ lastOp.outcome = "locked"
  /\ \E k \in DOMAIN players :
       /\ k[1] = lastOp.user
       /\ players[k].trigger_lock_uses = 0
       /\ players[k].trigger_lock_until = 0
       /\ ~players[k].confiscated
       /\ players[k].xp = LoadedXp
       /\ players[k].wild_fires = 0

\* ---------------------------------------------------------------------------
\* The due time inside the window
\* ---------------------------------------------------------------------------

\* C30: for a channel that has spawned before (last # 0, min_spawn <= max_spawn),
\* the due time computed with immediacy allowed is now when now > last + max_spawn;
\* otherwise it lies in [max(now, last + min_spawn), last + max_spawn], and when
\* now is inside the window it is now + d for a d in 1..max(1, last + max_spawn - now).
C30_DueWithinWindow ==
  probe.kind = "due_window" =>
    LET earliest_allowed == probe.last + probe.min_spawn
        latest_allowed == probe.last + probe.max_spawn
    IN  IF probe.now > latest_allowed THEN probe.due_time = probe.now
        ELSE /\ Max(probe.now, earliest_allowed) <= probe.due_time
             /\ probe.due_time <= latest_allowed
             /\ probe.now >= earliest_allowed =>
                  \E d \in 1..Max(1, latest_allowed - probe.now) :
                    probe.due_time = probe.now + d

\* ---------------------------------------------------------------------------
\* Detector notices
\* ---------------------------------------------------------------------------

\* the bot started with a player file in which u2 has played on the second network
InitNotice ==
  /\ InitGame
  /\ players = DictSet(EmptyDict, <<"u2", <<"n2", TheChannel>>>>, rearmed(LoadedXp))
  /\ probe = NoProbe
  /\ quota = MaxCmds
  /\ tasks = [n \in Networks |-> [pc |-> "read", wake |-> 0]]
  /\ data_file = players
  /\ channel_stats = EmptyDict

\* both loops run once a second and a player of the second network buys the
\* ducks detector (item 21)
NextNotice ==
  \/ \E n \in Networks : \E due \in first_dues(n) : complete_registration(n, due)
  \/ \E n \in Networks : Tick(n)
  \/ Second
  \/ \E u \in Users : handle_shop("n2", u, 21)

SpecNotice == InitNotice /\ [][NextNotice]_vars

\* C31: for each due time of a channel a player receives the detector's notice at
\* most once; a notice is sent no earlier than the channel's pre-notice time (set
\* to max(scheduling time, due - 120) by the scheduler), and only to a player whose detector is
\* active in that channel at that moment.
C31_NoticedOncePerDueTime ==
  /\ \A a \in notices, b \in notices :
       (a.user = b.user /\ a.key = b.key /\ a.due = b.due) => a = b
  /\ \A a \in notices :
       /\ a.at >= a.pre
       /\ DictHas(players, <<a.user, a.key>>)
       /\ players[<<a.user, a.key>>].ducks_detector_until > a.at


\* ---------------------------------------------------------------------------
\* The two upgrades
\* ---------------------------------------------------------------------------

\* C32: both upgrade levels of every record stay within 0..5, and a successful
\* purchase of the magazine upgrade (item 22) or of the extra magazine (item 23)
\* from level L raises that level, and only that level, by 1 and takes exactly
\* min(1000, 200 * (L + 1)) XP.
C32_UpgradeByOneAtScaledCost ==
  [][ /\ \A k \in DOMAIN players' :
           players'[k].mag_upgrade_level \in 0..5 /\ players'[k].mag_capacity_level \in 0..5
      /\ ( /\ lastOp'.op = "shop"
           /\ lastOp'.item \in { 22, 23 }
           /\ lastOp'.outcome = "bought" ) =>
           \A old \in { C24_Fetched } : \A new \in { players'[C24_Sender] } :
           \A L \in { IF lastOp'.item = 22 THEN old.mag_upgrade_level
                      ELSE old.mag_capacity_level } :
             /\ new.mag_upgrade_level
                  = old.mag_upgrade_level + (IF lastOp'.item = 22 THEN 1 ELSE 0)
             /\ new.mag_capacity_level
                  = old.mag_capacity_level + (IF lastOp'.item = 23 THEN 1 ELSE 0)
             /\ new.xp = old.xp - Min(1000, 200 * (L + 1))
    ]_vars

\* (the fifth extra magazine was bought for 1000 XP after the fourth for 800)
C32_FifthLevelBought ==
  /\ lastOp.op = "shop"
  /\ lastOp.item = 23
  /\ lastOp.outcome = "bought"
  /\ players[<<lastOp.user, PlayedKey>>].mag_capacity_level = 5
  /\ players[<<lastOp.user, PlayedKey>>].mag_upgrade_level = 3
  /\ players[<<lastOp.user, PlayedKey>>].xp = RichXp - 800 - 1000


\* ---------------------------------------------------------------------------
\* Drained queues
\* ---------------------------------------------------------------------------

\* C33: between handlers no channel key maps to an empty list of ducks: a queue is
\* absent or holds at least one duck.
C33_NoEmptyQueue ==
  \A key \in DOMAIN active_ducks : active_ducks[key] # << >>


\* ---------------------------------------------------------------------------
\* Parted and cleared channels
\* ---------------------------------------------------------------------------

\* the owner parts or clears the channel of a run in which a player may have bought
\* a duck call (item 24) while the bot was in the channel
NextOwner ==
  \/ \E due \in first_dues(Played) : complete_registration(Played, due)
  \/ Tick(Played)
  \/ \E d \in Waits : Elapse(d)
  \/ \E u \in Users : DictHas(members, PlayedKey) /\ handle_shop(Played, u, 24)
  \/ owner_part(Played)
  \/ owner_clear(Played)

SpecOwner == InitLoaded /\ [][NextOwner]_vars

\* C34: a !part or !clear leaves the channel without a regular due time, without a
\* pre-notice time, without a recorded last spawn and without pending duck-call due
\* times; and a pass of the loop over a channel without a schedule (parted or
\* cleared, not joined again) spawns no duck in it.
C34_PartedChannelStaysQuiet ==
  [][ lastOp'.op \in { "part", "clear", "tick" } =>
      \A key \in { get_network_channel_key(lastOp'.net, TheChannel) } :
        /\ lastOp'.op \in { "part", "clear" } =>
             /\ ~DictHas(channel_next_spawn', key)
             /\ ~DictHas(channel_pre_notice', key)
             /\ ~DictHas(channel_last_spawn', key)
             /\ DictGet(duck_call_schedule', key, << >>) = << >>
        /\ (lastOp'.op = "tick" /\ ~DictHas(channel_next_spawn, key)) =>
             SeqIds(queue_of(active_ducks', key)) \subseteq SeqIds(queue_of(active_ducks, key))
    ]_vars


\* ---------------------------------------------------------------------------
\* The sweep and the networks' despawn times
\* ---------------------------------------------------------------------------

\* both loops run a full pass once a second and an admin of the network with the
\* longer despawn_time spawns one duck, once
NextSweep ==
  \/ \E n \in Networks : \E due \in first_dues(n) : complete_registration(n, due)
  \/ \E n \in Networks : Tick(n)
  \/ Second
  \/ cmds = 0 /\ admin_spawnduck("n1", 1, {})

SpecSweep == Init /\ [][NextSweep]_vars

\* C35: a pass of either network's loop removes a duck only if the duck's age has
\* reached the despawn_time of the duck's own network: a younger duck stays in its
\* queue.
C35_SweptAtOwnDespawnTime ==
  [][ lastOp'.op = "tick" =>
        \A key \in DOMAIN active_ducks : \A i \in DOMAIN active_ducks[key] :
          now - active_ducks[key][i].spawn_time < get_network_despawn_time(key[1]) =>
            active_ducks[key][i].id \in SeqIds(queue_of(active_ducks', key))
    ]_vars


\* ---------------------------------------------------------------------------
\* Special ammunition: armour-piercing or explosive, never both
\* ---------------------------------------------------------------------------

\* u2 comes back with armour-piercing rounds; an admin spawns ducks, the players
\* shoot them (and loot) and buy either kind of special ammunition
NextAmmo ==
  \/ \E due \in first_dues(Played) : complete_registration(Played, due)
  \/ admin_spawnduck(Played, 1, {})
  \/ \E u \in Users : handle_bang(Played, u)
  \/ \E u \in Users, item_id \in { 3, 4 } : handle_shop(Played, u, item_id)

SpecAmmo == InitHit /\ [][NextAmmo]_vars

C36_OneKind(st) == ~(st.ap_shots > 0 /\ st.explosive_shots > 0)

\* the counters of record new are those of a player who now holds 20 rounds of
\* the kind of item 3 (kind = 3) or of item 4
C36_Holds(new, kind) ==
  IF kind = 3 THEN new.ap_shots = 20 /\ new.explosive_shots = 0
  ELSE new.explosive_shots = 20 /\ new.ap_shots = 0

C36_OnlyActive(st, kind) ==
  IF kind = 3 THEN st.ap_shots > 0 /\ st.explosive_shots = 0
  ELSE st.explosive_shots > 0 /\ st.ap_shots = 0

\* C36: no record ever has ap_shots and explosive_shots both positive; buying one
\* kind, or looting it while the other kind is active, leaves 20 rounds of the new
\* kind and none of the other; buying the kind that is the only active one is
\* rejected and changes neither counter.
C36_OneSpecialAmmunition ==
  [][ /\ \A k \in DOMAIN players : C36_OneKind(players[k])
      /\ \A k \in DOMAIN players' : C36_OneKind(players'[k])
      /\ (lastOp'.op = "shop" /\ lastOp'.item \in { 3, 4 }) =>
           \A st \in { C24_Fetched } : \A new \in { players'[C24_Sender] } :
             /\ lastOp'.outcome = "bought" => C36_Holds(new, lastOp'.item)
             /\ C36_OnlyActive(st, lastOp'.item) =>
                  /\ lastOp'.outcome \in { "active", "poor" }
                  /\ new.ap_shots = st.ap_shots
                  /\ new.explosive_shots = st.explosive_shots
             /\ (~C36_OnlyActive(st, lastOp'.item) /\ st.xp >= shop_cost(st, lastOp'.item)) =>
                  lastOp'.outcome = "bought"
      /\ (lastOp'.op = "bang" /\ lastOp'.killed) =>
           \A st \in { C24_Fetched } : \A new \in { players'[C24_Sender] } :
             /\ (lastOp'.loot = "ap_ammo" /\ st.explosive_shots > 0) => C36_Holds(new, 3)
             /\ (lastOp'.loot = "explosive_ammo" /\ st.ap_shots > 0) => C36_Holds(new, 4)
    ]_vars

\* u2, who came back with armour-piercing rounds, has switched to explosive ones
\* with the first command of the run
C36_SwitchedToExplosive ==
  /\ cmds = 1
  /\ lastOp.op = "shop" /\ lastOp.user = "u2" /\ lastOp.item = 4 /\ lastOp.outcome = "bought"
  /\ players[<<"u2", PlayedKey>>].explosive_shots = 20
  /\ players[<<"u2", PlayedKey>>].ap_shots = 0

\* u2 shot a duck with armour-piercing rounds loaded and found explosive ones
C36_LootedTheOtherKind ==
  /\ cmds = 2
  /\ lastOp.op = "bang" /\ lastOp.user = "u2" /\ lastOp.killed /\ lastOp.loot = "explosive_ammo"
  /\ players[<<"u2", PlayedKey>>].explosive_shots = 20
  /\ players[<<"u2", PlayedKey>>].ap_shots = 0


\* ---------------------------------------------------------------------------
\* ducks_lock: the sweep at the grain of its awaits
\* ---------------------------------------------------------------------------

\* `async with self.ducks_lock`: the task of network n enters when no sequence is
\* in progress under the lock
acquires(n) == probe = NoProbe

\* despawn_old_ducks(network) when some duck has expired: the scan of the queues,
\* the messages it awaits while it holds the lock, then the write of the queues it
\* kept (the ages are those of the time the sweep began)
despawn_locked(n) ==
  \/ /\ running
     /\ registered[n]
     /\ acquires(n)
     /\ despawned_ids(active_ducks, now, n) # {}
     /\ probe' = [ kind |-> "sweep", net |-> n, read |-> active_ducks, at |-> now ]
     /\ lastOp' = [ op |-> "scan", net |-> n ]
     /\ UNCHANGED << now, registered, members, channel_next_spawn, channel_pre_notice,
                     channel_notice_sent, channel_last_spawn, duck_call_schedule,
                     last_despawn_check, active_ducks, players, nextId, departed, shot_by,
                     befriended_by, natGap, ticked, cmds, elapses, running, quota,
                     shop_item_23_cost, channel_stats, channel_stats_backup,
                     should_restart, tasks, data_file, notices >>
  \/ /\ probe # NoProbe
     /\ probe.net = n
     /\ active_ducks' = despawn_old_ducks(probe.read, probe.at, n)
     /\ players' = unconfiscate_all(players, despawned_keys(probe.read, probe.at, n))
     /\ departed' = count_departures(departed, despawned_ids(probe.read, probe.at, n))
     /\ last_despawn_check' = [last_despawn_check EXCEPT ![n] = probe.at]
     /\ probe' = NoProbe
     /\ lastOp' = [ op |-> "sweep", net |-> n, kept |-> active_ducks ]
     /\ UNCHANGED << now, registered, members, channel_next_spawn, channel_pre_notice,
                     channel_notice_sent, channel_last_spawn, duck_call_schedule,
                     nextId, shot_by, befriended_by, natGap, ticked, cmds, elapses,
                     running, quota, shop_item_23_cost, channel_stats,
                     channel_stats_backup, should_restart, tasks, data_file, notices >>

\* the tasks of the two networks: either sweeps; on either an admin spawns a duck;
\* on the played one the players shoot and the owner clears the channel; every one
\* of these sequences begins by taking the lock
NextLock ==
  \/ \E n \in Networks : \E due \in first_dues(n) : complete_registration(n, due)
  \/ \E d \in Waits : Elapse(d)
  \/ \E n \in Networks : despawn_locked(n)
  \/ \E n \in Networks : acquires(n) /\ admin_spawnduck(n, 1, {})
  \/ \E u \in Users : acquires(Played) /\ handle_bang(Played, u)
  \/ acquires(Played) /\ owner_clear(Played)

SpecLock == InitLoaded /\ [][NextLock]_vars

C38_NaturalSpawn(key) ==
  /\ DictGet(channel_last_spawn', key, 0) = now
  /\ DictGet(channel_last_spawn, key, 0) # now

SpecLive ==
  /\ Init /\ [][NextSweep]_vars
  /\ \A n \in Networks :
       /\ WF_vars(\E due \in first_dues(n) : complete_registration(n, due))
       /\ WF_vars(Tick(n))
  /\ WF_vars(Second)

C39_Due(n) == DictGet(channel_next_spawn, get_network_channel_key(n, TheChannel), None)

\* C39: between passes a joined channel always has a due time; a due time that has
\* been reached is replaced by a later one; and when it is reached with the channel
\* below max_ducks, the channel gets its natural spawn and a new due time.
C39_ScheduleReArmed ==
  /\ [](\A n \in Networks : registered[n] => C39_Due(n) \notin { None, 0 })
  /\ \A n \in Networks :
       /\ (registered[n] /\ C39_Due(n) <= now) ~> (C39_Due(n) > now)
       /\ (/\ registered[n] /\ C39_Due(n) <= now
           /\ can_spawn_duck(active_ducks, get_network_channel_key(n, TheChannel), n))
            ~> (/\ DictGet(channel_last_spawn, get_network_channel_key(n, TheChannel), 0) = now
                /\ C39_Due(n) >= now + get_network_min_spawn(n))

\* the pass of n2 has just made a natural spawn and recorded the next due time
C39_SpawnedAndReArmed ==
  /\ lastOp.op = "tick" /\ lastOp.net = "n2"
  /\ DictGet(channel_last_spawn, <<"n2", TheChannel>>, 0) = now
  /\ C39_Due("n2") >= now + get_network_min_spawn("n2")
  /\ \E i \in DOMAIN queue_of(active_ducks, <<"n2", TheChannel>>) :
       active_ducks[<<"n2", TheChannel>>][i].spawn_time = now


\* ---------------------------------------------------------------------------
\* Every duck leaves with the first sweep after its despawn time
\* ---------------------------------------------------------------------------

\* C40: a sweep removes every duck whose age has reached the despawn_time of its
\* network: after a pass that swept, no such duck is left in its queue.
C40_RemovedByFirstSweep ==
  [][ (lastOp'.op = "tick" /\ now - last_despawn_check[lastOp'.net] >= 1) =>
        \A key \in DOMAIN active_ducks : \A i \in DOMAIN active_ducks[key] :
          now - active_ducks[key][i].spawn_time >= get_network_despawn_time(key[1]) =>
            active_ducks[key][i].id \notin SeqIds(queue_of(active_ducks', key))
    ]_vars

====
